---- MODULE Spec2Model ----
(***************************************************************************)
(* The CLI auto-installer (installCli, getCliCommand and the per-platform  *)
(* installers) as a state machine.  One step of the machine is one run of  *)
(* JavaScript between two awaits on a host primitive: the continuation     *)
(* that runs when the prompt, the temp-dir allocator, the fetcher or a     *)
(* child process completes, together with every synchronous call, catch    *)
(* and finally block that continuation runs.                               *)
(*                                                                         *)
(* Paths are sequences of path components; path.join is concatenation.     *)
(* An optional value (string | undefined) is a set with at most one        *)
(* element: {} is undefined.                                               *)
(***************************************************************************)
EXTENDS Integers, Sequences, FiniteSets, TLC

VARIABLES
    platform,     \* process.platform
    globalAvail,  \* the tools whose bare command exits 0 when run from the search path
    pc,           \* per session: the host primitive the session is awaiting
    cli,          \* per session: the `cli` argument of installCli
    result,       \* per session: the local `result` of installCli
    tempDir,      \* per session: the local `tempDir` of installCli
    cliPath,      \* per session: the local `cliPath` of installCli
    outcome,      \* per session: how the promise returned by installCli settled
    log,          \* per session: the host primitives that completed, in order
    telemetry,    \* per session: the records passed to recordAwsInstallCli
    cleanup,      \* per session: state of the tryRemoveFolder promise
    notification, \* per session: the error notifications shown, each with the actions it offers
    scratch,      \* the temporary folders that exist
    managed,      \* the paths under globalStoragePath/cli that installers installed into
    probeCalls,   \* the getCliCommand calls: the probes that closed and how the call settled
    lookups,      \* the completed lookups of a tool's source and command for process.platform
    connectPc,    \* aws.codeWhisperer.connect: what the command is awaiting
    connectArgs,  \* aws.codeWhisperer.connect: customizationArn and customizationNamePrefix
    persistedCustomizations, \* what getPersistedCustomizations returns
    persistedRead, \* what getPersistedCustomizations last returned to aws.codeWhisperer.connect
    selected,     \* the customizations passed to selectCustomization, in order
    scanState,    \* codeScanState: NotStarted, Running or Cancelling
    scanPc,       \* per invocation of aws.amazonq.security.scan: what it is awaiting
    scanLog,      \* scans launched, stop confirmations asked, scans ended, in order
    isFreeTierLimitReached, \* vsCodeState.isFreeTierLimitReached
    settingCalls, \* the calls of the toggle and enable commands of suggestions and scans
    suggestionsEnabled, \* CodeSuggestionsState: whether auto-suggestions are enabled
    scansEnabled, \* CodeScansState: whether auto-scans are enabled
    contexts,     \* the context keys set with setContext
    statusBarMessage, \* the message last passed to setStatusBarMessage
    fixPc,        \* per invocation of aws.amazonq.applySecurityFix: what it is awaiting
    fixArgs,      \* per invocation: whether the issue has a suggested fix, and the file path
    fixLog,       \* per invocation: the steps of the command that completed, in order
    fixTelemetry, \* per invocation: the results of the apply-fix events emitted
    toolkitApi,   \* _toolkitApi
    onceRan,      \* whether the function wrapped by once() has run
    authListeners, \* the number of listeners registered on each event of Auth
    apiCalls,     \* the calls made on toolkit API objects, in order
    apiExecutions, \* the completed executions of aws.amazonq.refreshConnectionCallback
    awaiting,     \* the runs of the connection-state listener awaiting getConnection
    authEvents    \* the number of events Auth has fired

installVars == <<pc, cli, result, tempDir, cliPath, outcome, log, telemetry, cleanup,
                 notification, scratch, managed>>
envVars == <<platform, globalAvail>>
connectVars == <<connectPc, connectArgs, persistedCustomizations, persistedRead,
                 selected>>
\* What a step of installCli never touches.
settingVars == <<settingCalls, suggestionsEnabled, scansEnabled, contexts,
                 statusBarMessage>>
scanVars == <<scanState, scanPc, scanLog, isFreeTierLimitReached, settingVars>>
\* The state of the other editor commands.
fixVars == <<fixPc, fixArgs, fixLog, fixTelemetry>>
apiVars == <<toolkitApi, onceRan, authListeners, apiCalls, apiExecutions, awaiting,
             authEvents>>
commandVars == <<scanVars, fixVars, apiVars>>
\* What a step of one editor command never touches.
besideScan == <<installVars, envVars, probeCalls, lookups, connectVars, fixVars, apiVars>>
besideFix == <<installVars, envVars, probeCalls, lookups, connectVars, scanVars, apiVars>>
besideApi == <<installVars, envVars, probeCalls, lookups, connectVars, scanVars, fixVars>>
outsideVars == <<probeCalls, lookups, connectVars, commandVars>>
vars == <<platform, globalAvail, pc, cli, result, tempDir, cliPath, outcome, log,
          telemetry, cleanup, notification, scratch, managed, probeCalls, lookups,
          connectPc, connectArgs, persistedCustomizations, persistedRead, selected,
          scanState, scanPc, scanLog, isFreeTierLimitReached,
          settingCalls, suggestionsEnabled, scansEnabled, contexts, statusBarMessage,
          fixPc, fixArgs, fixLog, fixTelemetry,
          toolkitApi, onceRan, authListeners, apiCalls, apiExecutions, awaiting,
          authEvents>>

----------------------------------------------------------------------------
(* Bounds *)

\* Number of installCli sessions that may be in flight together.
NumSessions == 2

\* Number of getCliCommand calls recorded.
MaxProbeCalls == 2

\* Number of platform lookups recorded.
MaxLookups == 3

\* Number of persisted customizations.
MaxPersisted == 2

\* Number of invocations of aws.amazonq.security.scan.
NumScanInvocations == 2

\* Number of invocations of aws.amazonq.applySecurityFix.
NumFixInvocations == 2

\* Number of executions of aws.amazonq.refreshConnectionCallback.
MaxExecutions == 2

\* Number of events fired by Auth.
MaxAuthEvents == 2

\* Number of calls of the commands that toggle or enable suggestions and scans.
MaxSettingCalls == 1

Sessions == 1..NumSessions
ScanInvocations == 1..NumScanInvocations
FixInvocations == 1..NumFixInvocations

----------------------------------------------------------------------------
(* Values *)

AwsClis == {"aws", "ssm"}

\* process.platform: the three supported values, and one standing for every other.
Platforms == {"win32", "darwin", "linux", "freebsd"}

\* Exit codes a child process reports: zero, and one standing for every non-zero.
ExitCodes == {0, 1}

Undefined == {}
Some(v) == {v}
TheValue(opt) == CHOOSE v \in opt : TRUE

\* A host primitive that completed: it returned, it threw, or (a child process) it
\* closed with an exit code.
Event(op, arg, exitCode, threw) ==
    [op |-> op, arg |-> arg, exitCode |-> exitCode, threw |-> threw]
Ran(op, arg) == Event(op, arg, 0, FALSE)
Threw(op, arg) == Event(op, arg, 0, TRUE)
Exited(op, arg, exitCode) == Event(op, arg, exitCode, FALSE)

MakeError(class, message, exitCode, artifact) ==
    [class |-> class, message |-> message, exitCode |-> exitCode, artifact |-> artifact]
NoError == MakeError("none", "", 0, <<>>)
\* The error a host primitive throws.
HostError(op) == MakeError("Error", op, 0, <<>>)
\* new InstallerError((err as Error).message)
Wrapped(err) == MakeError("InstallerError", err.message, 0, <<>>)
VerifyError == MakeError("InstallerError", "Could not verify installed CLIs", 0, <<>>)
InvalidPlatform ==
    MakeError("InvalidPlatformError", "is not supported for CLI autoinstallation", 0, <<>>)

\* How the promise returned by installCli stands.
Pending == [kind |-> "pending", value |-> Undefined, error |-> NoError]
Returned(value) == [kind |-> "return", value |-> value, error |-> NoError]
Thrown(err) == [kind |-> "throw", value |-> Undefined, error |-> err]

\* aws.codeWhisperer.connect before it is called: no arguments yet.
NoArgs == [arn |-> Undefined, prefix |-> Undefined]

\* The context keys before a command sets them.
NoContexts == [connected |-> Undefined, connectionExpired |-> Undefined]

\* Auth before anything is registered on it.
NoListeners == [onDidChangeConnectionState |-> 0, onDidDeleteConnection |-> 0]

\* aws.amazonq.applySecurityFix before it is called: no arguments yet.
NoFixArgs == [suggestedFix |-> Undefined, filePath |-> Undefined]

\* Strings of the customizations are sequences of pieces; <<>> is the empty string.
\* A JavaScript string is truthy unless it is undefined or empty.
Truthy(opt) == opt # Undefined /\ TheValue(opt) # <<>>

\* String.prototype.startsWith
startsWith(str, prefix) ==
    Len(prefix) <= Len(str) /\ SubSeq(str, 1, Len(prefix)) = prefix

\* Customization records: arn is a string, name an optional string.
Customizations ==
    {[arn |-> <<"arn", "1">>, name |-> Some(<<"a", "b">>)],
     [arn |-> <<"arn", "2">>, name |-> Some(<<"a">>)],
     [arn |-> <<"arn", "2">>, name |-> Undefined],
     [arn |-> <<"arn", "3">>, name |-> Some(<<"b">>)]}

\* The values of the customizationArn argument, and of customizationNamePrefix.
ArnArgs == {Undefined, Some(<<>>), Some(<<"arn", "1">>), Some(<<"arn", "2">>)}
PrefixArgs == {Undefined, Some(<<>>), Some(<<"a">>), Some(<<"b">>)}

\* The lists getPersistedCustomizations may return.
PersistedLists == UNION {[1..n -> Customizations] : n \in 0..MaxPersisted}

\* Button labels (localize defaults).
install == "Install"
manualInstall == "Install manually..."
dismissed == "dismissed"

\* path.join, path.parse(p).base, path.parse(p).dir / path.dirname
join(a, b) == a \o b
base(p) == <<p[Len(p)]>>
dirname(p) == SubSeq(p, 1, Len(p) - 1)

\* path.parse(p).name: the last component without its extension.
parseName(p) ==
    CASE p[Len(p)] = "awscli-exe-linux-x86_64.zip" -> <<"awscli-exe-linux-x86_64">>
      [] p[Len(p)] = "AWSCLIV2.pkg" -> <<"AWSCLIV2">>
      [] p[Len(p)] = "AWSCLIV2.msi" -> <<"AWSCLIV2">>
      [] p[Len(p)] = "session-manager-plugin.pkg" -> <<"session-manager-plugin">>
      [] p[Len(p)] = "SessionManagerPlugin.zip" -> <<"SessionManagerPlugin">>
      [] p[Len(p)] = "session-manager-plugin.deb" -> <<"session-manager-plugin">>
      [] OTHER -> base(p)

\* A URL is the sequence <<origin and directory, file name>>.
AWS_CLIS ==
    [aws |->
        [command |-> [unix |-> <<"AWSCLIV2", "aws">>,
                      windows |-> <<"AWSCLIV2", "aws.exe">>],
         source |-> [macos |-> <<"https://awscli.amazonaws.com", "AWSCLIV2.pkg">>,
                     windows |-> <<"https://awscli.amazonaws.com", "AWSCLIV2.msi">>,
                     linux |-> <<"https://awscli.amazonaws.com",
                                 "awscli-exe-linux-x86_64.zip">>],
         name |-> "AWS",
         manualInstallLink |->
             "https://docs.aws.amazon.com/cli/latest/userguide/install-cliv2.html"],
     ssm |->
        [command |-> [unix |-> <<"sessionmanagerplugin", "bin", "session-manager-plugin">>,
                      windows |-> <<"sessionmanagerplugin", "bin",
                                    "session-manager-plugin.exe">>],
         source |-> [macos |-> <<"https://s3.amazonaws.com/session-manager-downloads/plugin/latest/mac",
                                 "session-manager-plugin.pkg">>,
                     windows |-> <<"https://REMOVED/plugin/1.2.269.0/windows",
                                   "SessionManagerPlugin.zip">>,
                     linux |-> <<"https://s3.amazonaws.com/session-manager-downloads/plugin/latest/ubuntu_64bit",
                                 "session-manager-plugin.deb">>],
         name |-> "Session Manager Plugin",
         manualInstallLink |->
             "https://docs.aws.amazon.com/systems-manager/latest/userguide/session-manager-working-with-install-plugin.html"]]

\* ext.context.globalStoragePath
globalStoragePath == <<"globalStorage">>

getToolkitCliDir == join(globalStoragePath, <<"cli">>)

getToolkitLocalCliPath == join(getToolkitCliDir, <<"Amazon">>)

getOsCommand(c, os) ==
    IF os = "win32" THEN AWS_CLIS[c].command.windows ELSE AWS_CLIS[c].command.unix

\* The platforms for which getOsCliSource returns; it throws InvalidPlatformError otherwise.
SupportedPlatforms == {"win32", "darwin", "linux"}

getOsCliSource(c, os) ==
    CASE os = "win32" -> AWS_CLIS[c].source.windows
      [] os = "darwin" -> AWS_CLIS[c].source.macos
      [] os = "linux" -> AWS_CLIS[c].source.linux

\* Every value of process.platform.
NodePlatforms == Platforms \cup {"aix", "openbsd", "sunos", "android"}

\* A call of getOsCliSource whose default case throws an InstallerError made from the
\* InvalidPlatformError's message.
getOsCliSourceWraps(c, os) ==
    IF os \in SupportedPlatforms THEN Returned(Some(getOsCliSource(c, os)))
    ELSE Thrown(Wrapped(InvalidPlatform))

\* A call of getOsCliSource: the source it returns, or the error its default case throws.
getOsCliSourceCall(c, os) ==
    IF os \in SupportedPlatforms THEN Returned(Some(getOsCliSource(c, os)))
    ELSE Thrown(InvalidPlatform)

\* A call of getOsCommand: it has no throw statement.
getOsCommandCall(c, os) == Returned(Some(getOsCommand(c, os)))

\* A download into the parent of the scratch directory, which the sessions share.
destinationFileShared(c, os, dir) == join(dirname(dir), base(getOsCliSource(c, os)))

\* A download into the managed install directory instead of the scratch directory.
destinationFileInCliDir(c, os, dir) == join(getToolkitCliDir, base(getOsCliSource(c, os)))

\* downloadCliSource's destinationFile
destinationFile(c, os, dir) == join(dir, base(getOsCliSource(c, os)))

\* The command hasCliCommand executes.
probeCommand(c, os, global) ==
    IF global THEN base(getOsCommand(c, os))
    ELSE join(getToolkitLocalCliPath, getOsCommand(c, os))

\* hasCliCommand rejecting when the command closes with a non-zero exit code.
hasCliCommandThrows(c, os, global, exitCode) ==
    IF exitCode = 0 THEN Returned(Some(probeCommand(c, os, global)))
    ELSE Thrown(HostError("probe"))

\* hasCliCommand, given the exit code `command --version` closed with.
hasCliCommand(c, os, global, exitCode) ==
    Returned(IF exitCode = 0 THEN Some(probeCommand(c, os, global)) ELSE Undefined)

\* getCliCommand probing the managed directory first.
getCliCommandLocalFirst == <<FALSE, TRUE>>

\* The `global` arguments of the hasCliCommand calls of getCliCommand, in the order they
\* are awaited: `await hasCliCommand(cli, true)`, then `?? (await hasCliCommand(cli, false))`.
getCliCommand == <<TRUE, FALSE>>

\* The exit code of `command --version` for the bare command on the search path.
globalExitCode(c) == IF c \in globalAvail THEN 0 ELSE 1

\* The directory installAwsCli's platform installers return.
awsCliReturn(os) == join(getToolkitCliDir, getOsCommand("aws", os))

\* An outDir that is the local CLI path itself: the plugin tree is copied next to the
\* AWS CLI instead of into a directory of its own.
ssmOutDirShared == getToolkitLocalCliPath

\* installSsmCli's outDir and the directory it resolves to.
ssmOutDir == join(getToolkitLocalCliPath, <<"sessionmanagerplugin">>)
ssmCliReturn == join(ssmOutDir, <<"bin">>)

\* The folder makeTemporaryToolkitFolder creates for the n-th caller: a new name each time.
TempFolder(n) == <<"tmp", ToString(n)>>

----------------------------------------------------------------------------
(* installCli: the parts every continuation shares *)

\* The finally block without the removal.
StartsCleanupNever(td) == FALSE

\* `if (tempDir)` of the finally block.
StartsCleanup(td) == td # Undefined

\* Only a dismissed prompt declines.
ConfirmedUnlessDismissed(selection) == selection # dismissed

\* `selection !== install` is false.
Confirmed(selection) == selection = install

\* The assignment left out: result keeps its initial value.
DeclinedResultUnset == "Succeeded"

\* `result = 'Cancelled'`
DeclinedResult == "Cancelled"

\* Validation by the search path instead of the managed directory.
VerifyGlobalPath == TRUE

\* The `global` argument of the hasCliCommand call that validates the install.
VerifyGlobal == FALSE

\* The exit codes `command --version` can report.
ProbeExits(c, global) == IF global THEN {globalExitCode(c)} ELSE ExitCodes

\* Path p is directory dir or lies under it.
IsUnder(p, dir) == Len(p) >= Len(dir) /\ SubSeq(p, 1, Len(dir)) = dir

\* The managed install directory after `paths` were created or written: the paths
\* under globalStoragePath/cli are recorded.
WrittenTo(paths) == managed \cup {p \in paths : IsUnder(p, getToolkitCliDir)}

\* The session goes on to await host primitive `next`.
Await(s, next, td, cp, lg) ==
    /\ pc' = [pc EXCEPT ![s] = next]
    /\ tempDir' = [tempDir EXCEPT ![s] = td]
    /\ cliPath' = [cliPath EXCEPT ![s] = cp]
    /\ log' = [log EXCEPT ![s] = lg]
    /\ UNCHANGED <<result, outcome, telemetry, cleanup, notification>>

\* A finally block that awaits tryRemoveFolder before it records telemetry: with a
\* scratch directory the session goes on to await the removal.
SettleAwaitsRemoval(s, td, cp, res, out, lg, notes) ==
    /\ pc' = [pc EXCEPT ![s] = IF StartsCleanup(td) THEN "tryRemoveFolder" ELSE "settled"]
    /\ tempDir' = [tempDir EXCEPT ![s] = td]
    /\ cliPath' = [cliPath EXCEPT ![s] = cp]
    /\ result' = [result EXCEPT ![s] = res]
    /\ outcome' = [outcome EXCEPT ![s] = IF StartsCleanup(td) THEN @ ELSE out]
    /\ log' = [log EXCEPT ![s] = lg]
    /\ notification' = [notification EXCEPT ![s] = notes]
    /\ cleanup' = [cleanup EXCEPT ![s] =
                      IF StartsCleanup(td)
                      THEN Append(@, [dir |-> TheValue(td), state |-> "pending"])
                      ELSE @]
    /\ telemetry' = [telemetry EXCEPT ![s] =
                        IF StartsCleanup(td) THEN @
                        ELSE Append(@, [result |-> res, cli |-> cli[s]])]

\* The finally block, and the settling of installCli's promise as `out`.
Settle(s, td, cp, res, out, lg, notes) ==
    /\ pc' = [pc EXCEPT ![s] = "settled"]
    /\ tempDir' = [tempDir EXCEPT ![s] = td]
    /\ cliPath' = [cliPath EXCEPT ![s] = cp]
    /\ result' = [result EXCEPT ![s] = res]
    /\ outcome' = [outcome EXCEPT ![s] = out]
    /\ log' = [log EXCEPT ![s] = lg]
    /\ notification' = [notification EXCEPT ![s] = notes]
    /\ cleanup' = [cleanup EXCEPT ![s] =
                      IF StartsCleanup(td)
                      THEN Append(@, [dir |-> TheValue(td), state |-> "pending"])
                      ELSE @]
    /\ telemetry' = [telemetry EXCEPT ![s] = Append(@, [result |-> res, cli |-> cli[s]])]

\* A `return` inside the try block.
Return(s, td, cp, res, value, lg) ==
    Settle(s, td, cp, res, Returned(value), lg, notification[s])

\* A catch block that rethrows without showing the error notification.
CatchSilently(s, td, cp, err, lg) ==
    Settle(s, td, cp, "Failed", Thrown(err), lg, notification[s])

\* A catch block that shows the error notification and does not rethrow: installCli
\* resolves with undefined.
CatchSwallows(s, td, cp, err, lg) ==
    Settle(s, td, cp, "Failed", Returned(Undefined), lg,
           Append(notification[s], <<manualInstall>>))

\* The catch block: the error notification is shown and the error rethrown.
Catch(s, td, cp, err, lg) ==
    Settle(s, td, cp, "Failed", Thrown(err), lg, Append(notification[s], <<manualInstall>>))

\* The promise installCli awaits never settles: no catch, no finally.
NeverSettles(s, td, lg) ==
    /\ pc' = [pc EXCEPT ![s] = "never"]
    /\ tempDir' = [tempDir EXCEPT ![s] = td]
    /\ log' = [log EXCEPT ![s] = lg]
    /\ UNCHANGED <<cliPath, result, outcome, telemetry, cleanup, notification>>

\* installCli goes on to validate: hasCliCommand starts `command --version`.
Validate(s, cp, lg) == Await(s, "probe", tempDir[s], Some(cp), lg)

----------------------------------------------------------------------------
(* Initial state *)

\* No session has started and no getCliCommand call has been made.
NothingStarted ==
    /\ pc = [s \in Sessions |-> "idle"]
    /\ cli = [s \in Sessions |-> "aws"]
    /\ result = [s \in Sessions |-> "Succeeded"]
    /\ tempDir = [s \in Sessions |-> Undefined]
    /\ cliPath = [s \in Sessions |-> Undefined]
    /\ outcome = [s \in Sessions |-> Pending]
    /\ log = [s \in Sessions |-> <<>>]
    /\ telemetry = [s \in Sessions |-> <<>>]
    /\ cleanup = [s \in Sessions |-> <<>>]
    /\ notification = [s \in Sessions |-> <<>>]
    /\ scratch = {}
    /\ managed = {}
    /\ probeCalls = <<>>
    /\ lookups = <<>>
    /\ connectPc = "idle"
    /\ connectArgs = NoArgs
    /\ persistedRead = Undefined
    /\ selected = <<>>
    /\ scanState = "NotStarted"
    /\ scanPc = [i \in ScanInvocations |-> "idle"]
    /\ scanLog = <<>>
    /\ settingCalls = <<>>
    /\ contexts = NoContexts
    /\ statusBarMessage = ""
    /\ fixPc = [i \in FixInvocations |-> "idle"]
    /\ fixArgs = [i \in FixInvocations |-> NoFixArgs]
    /\ fixLog = [i \in FixInvocations |-> <<>>]
    /\ fixTelemetry = [i \in FixInvocations |-> <<>>]
    /\ toolkitApi = Undefined
    /\ onceRan = FALSE
    /\ authListeners = NoListeners
    /\ apiCalls = <<>>
    /\ apiExecutions = <<>>
    /\ awaiting = 0
    /\ authEvents = 0

\* The installer on any platform.  installCli never runs a bare command, so what is on
\* the search path changes none of its steps: the search path has every tool on it, the
\* case in which a probe of the search path and a probe of the managed install directory
\* can differ.
Init ==
    /\ platform \in Platforms
    /\ globalAvail = AwsClis
    /\ persistedCustomizations = <<>>
    /\ isFreeTierLimitReached = FALSE
    /\ suggestionsEnabled = TRUE
    /\ scansEnabled = TRUE
    /\ NothingStarted

\* getCliCommand on any platform with any set of tools on the search path.
InitProbe ==
    /\ platform \in Platforms
    /\ globalAvail \in SUBSET AwsClis
    /\ persistedCustomizations = <<>>
    /\ isFreeTierLimitReached = FALSE
    /\ suggestionsEnabled = TRUE
    /\ scansEnabled = TRUE
    /\ NothingStarted

\* aws.codeWhisperer.connect with any list of persisted customizations.
InitConnect ==
    /\ platform = "linux"
    /\ globalAvail = {}
    /\ persistedCustomizations \in PersistedLists
    /\ isFreeTierLimitReached = FALSE
    /\ suggestionsEnabled = TRUE
    /\ scansEnabled = TRUE
    /\ NothingStarted

\* The platform lookups on every value process.platform takes.
InitResolver ==
    /\ platform \in NodePlatforms
    /\ globalAvail = {}
    /\ persistedCustomizations = <<>>
    /\ isFreeTierLimitReached = FALSE
    /\ suggestionsEnabled = TRUE
    /\ scansEnabled = TRUE
    /\ NothingStarted

----------------------------------------------------------------------------
(* installCli *)

\* installCli(c) is called: it runs up to the confirmation prompt.  Sessions are
\* numbered in the order of the calls.
InstallCli(s, c) ==
    /\ pc[s] = "idle"
    /\ \A t \in Sessions : t < s => pc[t] # "idle"
    /\ pc' = [pc EXCEPT ![s] = "showInformationMessage"]
    /\ cli' = [cli EXCEPT ![s] = c]
    /\ result' = [result EXCEPT ![s] = "Succeeded"]
    /\ UNCHANGED <<tempDir, cliPath, outcome, log, telemetry, cleanup, notification,
                   scratch, managed, envVars, outsideVars>>

\* The prompt rejects.
PromptThrows(s) ==
    /\ pc[s] = "showInformationMessage"
    /\ Catch(s, tempDir[s], cliPath[s], HostError("showInformationMessage"),
             Append(log[s], Threw("showInformationMessage", <<>>)))
    /\ UNCHANGED <<cli, scratch, managed, envVars, outsideVars>>

\* The prompt resolves, and every answer other than 'Install' opens the manual-install
\* link.
PromptDoneOpensLink(s) ==
    /\ pc[s] = "showInformationMessage"
    /\ \E selection \in {install, manualInstall, dismissed} :
         LET lg == Append(log[s], Ran("showInformationMessage", <<selection>>))
         IN  IF ~Confirmed(selection)
             THEN Return(s, tempDir[s], cliPath[s], DeclinedResult, Undefined,
                         Append(lg, Ran("openExternal",
                                        <<AWS_CLIS[cli[s]].manualInstallLink>>)))
             ELSE Await(s, "makeTemporaryToolkitFolder", tempDir[s], cliPath[s], lg)
    /\ UNCHANGED <<cli, scratch, managed, envVars, outsideVars>>

\* The prompt resolves with a button, or with nothing when dismissed.
PromptDone(s) ==
    /\ pc[s] = "showInformationMessage"
    /\ \E selection \in {install, manualInstall, dismissed} :
         LET lg == Append(log[s], Ran("showInformationMessage", <<selection>>))
         IN  IF ~Confirmed(selection)
             THEN Return(s, tempDir[s], cliPath[s], DeclinedResult, Undefined,
                         IF selection = manualInstall
                         THEN Append(lg, Ran("openExternal",
                                             <<AWS_CLIS[cli[s]].manualInstallLink>>))
                         ELSE lg)
             ELSE Await(s, "makeTemporaryToolkitFolder", tempDir[s], cliPath[s], lg)
    /\ UNCHANGED <<cli, scratch, managed, envVars, outsideVars>>

\* makeTemporaryToolkitFolder rejects: tempDir stays undefined.
MakeTempThrows(s) ==
    /\ pc[s] = "makeTemporaryToolkitFolder"
    /\ Catch(s, tempDir[s], cliPath[s], HostError("makeTemporaryToolkitFolder"),
             Append(log[s], Threw("makeTemporaryToolkitFolder", <<>>)))
    /\ UNCHANGED <<cli, scratch, managed, envVars, outsideVars>>

\* makeTemporaryToolkitFolder resolves and installCli validates before it installs.
MakeTempDoneProbesFirst(s) ==
    /\ pc[s] = "makeTemporaryToolkitFolder"
    /\ LET td == TempFolder(s)
           lg == Append(log[s], Ran("makeTemporaryToolkitFolder", td))
       IN  /\ scratch' = scratch \cup {td}
           /\ managed' = WrittenTo({td})
           /\ Await(s, "probe", Some(td), cliPath[s], lg)
    /\ UNCHANGED <<cli, envVars, outsideVars>>

\* makeTemporaryToolkitFolder resolves; install{Aws,Ssm}Cli calls downloadCliSource,
\* which throws for an unsupported platform and starts the fetch otherwise.
MakeTempDone(s) ==
    /\ pc[s] = "makeTemporaryToolkitFolder"
    /\ LET td == TempFolder(s)
           lg == Append(log[s], Ran("makeTemporaryToolkitFolder", td))
       IN  /\ scratch' = scratch \cup {td}
           /\ managed' = WrittenTo({td})
           /\ LET source == getOsCliSourceCall(cli[s], platform)
              IN  IF source.kind = "throw"
                  THEN Catch(s, Some(td), cliPath[s], source.error, lg)
                  ELSE Await(s, "fetch", Some(td), cliPath[s], lg)
    /\ UNCHANGED <<cli, envVars, outsideVars>>

\* fetcher.get(destinationFile).done rejects and downloadCliSource returns the
\* destination file all the same: the installer goes on to its first child process (on
\* Windows the session-manager plugin has none and goes on to validation).
FetchThrowsIgnored(s) ==
    /\ pc[s] = "fetch"
    /\ Await(s,
             CASE cli[s] = "aws" /\ platform = "win32" -> "msiexec"
               [] cli[s] = "aws" /\ platform = "darwin" -> "installer"
               [] cli[s] = "aws" /\ platform = "linux" -> "sh"
               [] cli[s] = "ssm" /\ platform = "darwin" -> "pkgutil"
               [] cli[s] = "ssm" /\ platform = "linux" -> "ar"
               [] cli[s] = "ssm" /\ platform = "win32" -> "probe",
             tempDir[s], cliPath[s],
             Append(log[s], Threw("fetch", destinationFile(cli[s], platform,
                                                           TheValue(tempDir[s])))))
    /\ managed' = WrittenTo({destinationFile(cli[s], platform, TheValue(tempDir[s]))})
    /\ UNCHANGED <<cli, scratch, envVars, outsideVars>>

\* fetcher.get(destinationFile).done rejects.
FetchThrows(s) ==
    /\ pc[s] = "fetch"
    /\ Catch(s, tempDir[s], cliPath[s], HostError("fetch"),
             Append(log[s], Threw("fetch", destinationFile(cli[s], platform,
                                                           TheValue(tempDir[s])))))
    /\ managed' = WrittenTo({destinationFile(cli[s], platform, TheValue(tempDir[s]))})
    /\ UNCHANGED <<cli, scratch, envVars, outsideVars>>

----------------------------------------------------------------------------
(* installAwsCli and its platform installers *)

\* new InstallerError(`Installation of ... ${path} failed: Error Code ${exitCode}`)
InstallFailed(artifact, exitCode) ==
    MakeError("InstallerError", "Installation failed: Error Code", exitCode, artifact)

\* The download completed: installAwsCli resumes, makes the installer executable and
\* runs the platform's installer up to the child process it starts.
InstallAwsCli(s) ==
    /\ pc[s] = "fetch"
    /\ cli[s] = "aws"
    /\ LET td == TheValue(tempDir[s])
           awsInstaller == destinationFile("aws", platform, td)
           xmlPath == join(td, <<"choices.xml">>)
           extractTo == join(dirname(awsInstaller), parseName(awsInstaller))
           lg0 == Append(log[s], Ran("fetch", awsInstaller))
           lg1 == Append(lg0, Ran("chmodSync", awsInstaller))
       IN  \/ Catch(s, tempDir[s], cliPath[s], HostError("chmodSync"),
                    Append(lg0, Threw("chmodSync", awsInstaller)))
           \/ /\ platform = "win32"
              /\ Await(s, "msiexec", tempDir[s], cliPath[s], lg1)
           \/ /\ platform = "darwin"
              /\ \/ Catch(s, tempDir[s], cliPath[s], HostError("writeFileSync"),
                          Append(lg1, Threw("writeFileSync", xmlPath)))
                 \/ Await(s, "installer", tempDir[s], cliPath[s],
                          Append(lg1, Ran("writeFileSync", xmlPath)))
           \/ /\ platform = "linux"
              /\ \/ Catch(s, tempDir[s], cliPath[s], HostError("extractAllTo"),
                          Append(lg1, Threw("extractAllTo", extractTo)))
                 \/ Await(s, "sh", tempDir[s], cliPath[s],
                          Append(lg1, Ran("extractAllTo", extractTo)))
    /\ managed' = WrittenTo({destinationFile("aws", platform, TheValue(tempDir[s]))})
    /\ UNCHANGED <<cli, scratch, envVars, outsideVars>>

\* The directory the MSI package installs into when handed TARGETDIR.
msiInstallDir(targetDir) == join(targetDir, <<"Amazon", "AWSCLIV2">>)

\* The directory the macOS package installs into beneath customLocation: the one the
\* local probe looks for the command in.
pkgInstallDir(customLocation) == join(customLocation, <<"AWSCLIV2">>)

\* installToolkitLocalLinuxAwsCli.installDir
installDir == join(getToolkitCliDir, <<"Amazon", "AWSCLIV2">>)

\* A platform installer of the AWS CLI resumes when its child process has closed: a
\* non-zero exit code throws, otherwise the installer returns and installCli validates.
AwsInstallerDone(s, process, target, installsTo) ==
    /\ pc[s] = process
    /\ cli[s] = "aws"
    /\ \E exitCode \in ExitCodes :
         LET awsInstaller == destinationFile("aws", platform, TheValue(tempDir[s]))
             lg == Append(log[s], Exited(process, target, exitCode))
         IN  IF exitCode # 0
             THEN Catch(s, tempDir[s], cliPath[s], InstallFailed(awsInstaller, exitCode), lg)
             ELSE Validate(s, awsCliReturn(platform), lg)
    /\ managed' = managed \cup {installsTo}
    /\ UNCHANGED <<cli, scratch, envVars, outsideVars>>

\* msiexec /a msiPath /quiet TARGETDIR=<cli dir>: the package installs into
\* ./Amazon/AWSCLIV2 of the directory it is handed.
installToolkitLocalMsi(s) ==
    AwsInstallerDone(s, "msiexec", getToolkitCliDir, msiInstallDir(getToolkitCliDir))

\* installer --pkg pkgPath --target CurrentUserHomeDirectory --applyChoiceChangesXML
\* choices.xml, whose customLocation is the local CLI path
installToolkitLocalPkg(s) ==
    AwsInstallerDone(s, "installer", getToolkitLocalCliPath,
                     pkgInstallDir(getToolkitLocalCliPath))

\* sh <extracted>/aws/install -i installDir -b installDir
installToolkitLocalLinuxAwsCli(s) == AwsInstallerDone(s, "sh", installDir, installDir)

----------------------------------------------------------------------------
(* installSsmCli *)

\* The download completed: installSsmCli resumes and runs the platform's branch up to
\* its first await.  On Windows the branch has no await: both archives are extracted at
\* once, the second into outDir.
InstallSsmCli(s) ==
    /\ pc[s] = "fetch"
    /\ cli[s] = "ssm"
    /\ LET td == TheValue(tempDir[s])
           ssmInstaller == destinationFile("ssm", platform, td)
           secondZip == join(td, <<"package.zip">>)
           lg0 == Append(log[s], Ran("fetch", ssmInstaller))
           lg1 == Append(lg0, Ran("extractAllTo", td))
       IN  \/ /\ platform = "darwin"
              /\ Await(s, "pkgutil", tempDir[s], cliPath[s], lg0)
              /\ managed' = WrittenTo({ssmInstaller})
           \/ /\ platform = "linux"
              /\ Await(s, "ar", tempDir[s], cliPath[s], lg0)
              /\ managed' = WrittenTo({ssmInstaller})
           \/ /\ platform = "win32"
              /\ \/ /\ Catch(s, tempDir[s], cliPath[s], Wrapped(HostError("extractAllTo")),
                             Append(lg0, Threw("extractAllTo", td)))
                    /\ managed' = WrittenTo({ssmInstaller})
                 \/ /\ Catch(s, tempDir[s], cliPath[s], Wrapped(HostError("extractAllTo")),
                             Append(lg1, Threw("extractAllTo", ssmOutDir)))
                    /\ managed' = WrittenTo({ssmInstaller, ssmOutDir})
                 \/ /\ Validate(s, ssmCliReturn, Append(lg1, Ran("extractAllTo", ssmOutDir)))
                    /\ managed' = WrittenTo({ssmInstaller, ssmOutDir})
    /\ UNCHANGED <<cli, scratch, envVars, outsideVars>>

\* macOS: pkgutil --expand closed; its exit code is not read; tar is started.
SsmPkgutilDone(s) ==
    /\ pc[s] = "pkgutil"
    /\ \E exitCode \in ExitCodes :
         Await(s, "tar", tempDir[s], cliPath[s],
               Append(log[s], Exited("pkgutil", join(TheValue(tempDir[s]), <<"tmp">>),
                                     exitCode)))
    /\ UNCHANGED <<cli, scratch, managed, envVars, outsideVars>>

\* macOS: tar closed; its exit code is not read; the plugin tree is copied to outDir.
\* An error of the copy is caught and rejects the promise with an InstallerError.
SsmTarDoneDarwin(s) ==
    /\ pc[s] = "tar"
    /\ platform = "darwin"
    /\ \E exitCode \in ExitCodes :
         LET tempPath == join(TheValue(tempDir[s]), <<"tmp">>)
             lg == Append(log[s], Exited("tar", join(tempPath, <<"Payload">>), exitCode))
         IN  \/ Catch(s, tempDir[s], cliPath[s], Wrapped(HostError("copySync")),
                      Append(lg, Threw("copySync", ssmOutDir)))
             \/ Validate(s, ssmCliReturn, Append(lg, Ran("copySync", ssmOutDir)))
    /\ managed' = managed \cup {ssmOutDir}
    /\ UNCHANGED <<cli, scratch, envVars, outsideVars>>

\* Linux: ar -x closed; its exit code is not read; tar is started.
SsmArDone(s) ==
    /\ pc[s] = "ar"
    /\ \E exitCode \in ExitCodes :
         Await(s, "tar", tempDir[s], cliPath[s],
               Append(log[s], Exited("ar", destinationFile("ssm", platform,
                                                           TheValue(tempDir[s])),
                                     exitCode)))
    /\ UNCHANGED <<cli, scratch, managed, envVars, outsideVars>>

\* Linux: tar closed; its exit code is not read; outDir is made and the plugin tree
\* copied to it.  The executor is an async function without a try: an error of mkdirSync
\* or copySync rejects the executor's own promise, which nothing reads, and the promise
\* installSsmCli returned is neither resolved nor rejected.
SsmTarDoneLinux(s) ==
    /\ pc[s] = "tar"
    /\ platform = "linux"
    /\ \E exitCode \in ExitCodes :
         LET td == TheValue(tempDir[s])
             lg0 == Append(log[s], Exited("tar", join(td, <<"data.tar.gz">>), exitCode))
             lg1 == Append(lg0, Ran("mkdirSync", ssmOutDir))
         IN  \/ /\ NeverSettles(s, tempDir[s], Append(lg0, Threw("mkdirSync", ssmOutDir)))
                /\ UNCHANGED managed
             \/ /\ NeverSettles(s, tempDir[s], Append(lg1, Threw("copySync", ssmOutDir)))
                /\ managed' = managed \cup {ssmOutDir}
             \/ /\ Validate(s, ssmCliReturn, Append(lg1, Ran("copySync", ssmOutDir)))
                /\ managed' = managed \cup {ssmOutDir}
    /\ UNCHANGED <<cli, scratch, envVars, outsideVars>>

----------------------------------------------------------------------------
(* installCli: validation, and the promises it does not await *)

\* `command --version` closed: installCli returns cliPath when hasCliCommand found the
\* command and throws otherwise.
ValidateDone(s) ==
    /\ pc[s] = "probe"
    /\ \E exitCode \in ProbeExits(cli[s], VerifyGlobal) :
         LET lg == Append(log[s], Exited("probe",
                                         probeCommand(cli[s], platform, VerifyGlobal),
                                         exitCode))
             found == hasCliCommand(cli[s], platform, VerifyGlobal, exitCode)
         IN  IF found.kind = "throw"
             THEN Catch(s, tempDir[s], cliPath[s], found.error, lg)
             ELSE IF found.value = Undefined
             THEN Catch(s, tempDir[s], cliPath[s], VerifyError, lg)
             ELSE Return(s, tempDir[s], cliPath[s], result[s], cliPath[s], lg)
    /\ UNCHANGED <<cli, scratch, managed, envVars, outsideVars>>

\* tryRemoveFolder(tempDir) resolves, and a failed removal is reported as a failed
\* installation.
CleanupDoneReports(s) ==
    /\ \E i \in DOMAIN cleanup[s] :
         /\ cleanup[s][i].state = "pending"
         /\ \E success \in BOOLEAN :
              /\ cleanup' = [cleanup EXCEPT ![s][i].state =
                                IF success THEN "removed" ELSE "failed"]
              /\ scratch' = IF success THEN scratch \ {cleanup[s][i].dir} ELSE scratch
              /\ result' = [result EXCEPT ![s] = IF success THEN @ ELSE "Failed"]
              /\ telemetry' = [telemetry EXCEPT ![s] =
                                  IF success THEN @
                                  ELSE Append(@, [result |-> "Failed", cli |-> cli[s]])]
    /\ UNCHANGED <<pc, cli, tempDir, cliPath, outcome, log,
                   notification, managed, envVars, outsideVars>>

\* tryRemoveFolder(tempDir) resolves: the folder is gone, or it is not and the failure
\* is logged.
CleanupDone(s) ==
    /\ \E i \in DOMAIN cleanup[s] :
         /\ cleanup[s][i].state = "pending"
         /\ \E success \in BOOLEAN :
              /\ cleanup' = [cleanup EXCEPT ![s][i].state =
                                IF success THEN "removed" ELSE "failed"]
              /\ scratch' = IF success THEN scratch \ {cleanup[s][i].dir} ELSE scratch
    /\ UNCHANGED <<pc, cli, result, tempDir, cliPath, outcome, log, telemetry,
                   notification, managed, envVars, outsideVars>>

\* The user presses "Install manually..." on an error notification of the session:
\* the callback attached to showErrorMessage opens the tool's manual-install link.
\* Dismissing the notification changes nothing.
ErrorNotificationAnswered(s) ==
    /\ Len(notification[s]) >
           Cardinality({i \in DOMAIN log[s] : log[s][i].op = "openExternal"})
    /\ log' = [log EXCEPT ![s] =
                  Append(@, Ran("openExternal", <<AWS_CLIS[cli[s]].manualInstallLink>>))]
    /\ UNCHANGED <<pc, cli, result, tempDir, cliPath, outcome, telemetry, cleanup,
                   notification, scratch, managed, envVars, outsideVars>>

----------------------------------------------------------------------------
(* Specification of the installer *)

Next ==
    \E s \in Sessions :
        \/ \E c \in AwsClis : InstallCli(s, c)
        \/ PromptThrows(s)
        \/ PromptDone(s)
        \/ MakeTempThrows(s)
        \/ MakeTempDone(s)
        \/ FetchThrows(s)
        \/ InstallAwsCli(s)
        \/ installToolkitLocalMsi(s)
        \/ installToolkitLocalPkg(s)
        \/ installToolkitLocalLinuxAwsCli(s)
        \/ InstallSsmCli(s)
        \/ SsmPkgutilDone(s)
        \/ SsmTarDoneDarwin(s)
        \/ SsmArDone(s)
        \/ SsmTarDoneLinux(s)
        \/ ValidateDone(s)
        \/ CleanupDone(s)
        \/ ErrorNotificationAnswered(s)

Spec == Init /\ [][Next]_vars

----------------------------------------------------------------------------
(* getCliCommand *)

\* getCliCommand(AWS_CLIS[c]) is called: it starts the first probe and awaits it.
GetCliCommand(c) ==
    /\ Len(probeCalls) < MaxProbeCalls
    /\ probeCalls' = Append(probeCalls, [cli |-> c, runs |-> <<>>, outcome |-> Pending])
    /\ UNCHANGED <<installVars, envVars, lookups, connectVars, commandVars>>

\* The probe that call k awaits closes.  The bare command closes with the exit code the
\* search path gives it, the local one with either exit code.  `??` goes on to the
\* second probe only when the first gave undefined; the second probe's result, or a
\* rejected await, settles the call.
ProbeClosed(k) ==
    LET call == probeCalls[k]
        n == Len(call.runs) + 1
        global == getCliCommand[n]
    IN  /\ call.outcome = Pending
        /\ \E exitCode \in ProbeExits(call.cli, global) :
             LET command == hasCliCommand(call.cli, platform, global, exitCode)
                 settles == \/ command.kind = "throw"
                            \/ command.value # Undefined
                            \/ n = Len(getCliCommand)
             IN  probeCalls' = [probeCalls EXCEPT ![k] =
                     [cli |-> call.cli,
                      runs |-> Append(call.runs,
                                      [global |-> global,
                                       command |-> probeCommand(call.cli, platform, global),
                                       exitCode |-> exitCode]),
                      outcome |-> IF settles THEN command ELSE Pending]]
        /\ UNCHANGED <<installVars, envVars, lookups, connectVars, commandVars>>

NextProbe ==
    \/ \E c \in AwsClis : GetCliCommand(c)
    \/ \E k \in DOMAIN probeCalls : ProbeClosed(k)

SpecProbe == InitProbe /\ [][NextProbe]_vars

----------------------------------------------------------------------------
(* The platform lookups *)

\* A tool's source and command are looked up for process.platform, as
\* downloadCliSource and hasCliCommand do.
Lookup(c) ==
    /\ Len(lookups) < MaxLookups
    /\ lookups' = Append(lookups, [cli |-> c,
                                   source |-> getOsCliSourceCall(c, platform),
                                   command |-> getOsCommandCall(c, platform)])
    /\ UNCHANGED <<installVars, envVars, probeCalls, connectVars, commandVars>>

NextResolver == \E c \in AwsClis : Lookup(c)

SpecResolver == InitResolver /\ [][NextResolver]_vars

----------------------------------------------------------------------------
(* aws.codeWhisperer.connect *)

\* Array.prototype.find with the test `c.arn === arn`, or undefined.
findByArn(list, arn) ==
    LET hits == {i \in DOMAIN list : list[i].arn = arn}
    IN  IF hits = {} THEN Undefined
        ELSE Some(list[CHOOSE i \in hits : \A j \in hits : i <= j])

\* Array.prototype.find with the test `c.name?.startsWith(prefix)`, or undefined.
findByPrefix(list, prefix) ==
    LET hits == {i \in DOMAIN list :
                    list[i].name # Undefined /\ startsWith(TheValue(list[i].name), prefix)}
    IN  IF hits = {} THEN Undefined
        ELSE Some(list[CHOOSE i \in hits : \A j \in hits : i <= j])

\* A match that prefers the prefix to the ARN.
matchPrefixFirst(args, list) ==
    IF Truthy(args.prefix) THEN findByPrefix(list, TheValue(args.prefix))
    ELSE findByArn(list, TheValue(args.arn))

\* const match = customizationArn ? find by arn : find by prefix
match(args, list) ==
    IF Truthy(args.arn) THEN findByArn(list, TheValue(args.arn))
    ELSE findByPrefix(list, TheValue(args.prefix))

\* The command is called: it connects, with the given start URL and region or
\* interactively.
ConnectWithCustomization(enterprise, arn, prefix) ==
    /\ connectPc = "idle"
    /\ connectPc' = IF enterprise THEN "connectToEnterpriseSso" ELSE "getStartUrl"
    /\ connectArgs' = [arn |-> arn, prefix |-> prefix]
    /\ UNCHANGED <<installVars, envVars, probeCalls, lookups, commandVars, persistedCustomizations,
                   persistedRead, selected>>

\* The rest of the command once the persisted customizations are read: no match is only
\* logged, a match is passed to selectCustomization.
SelectMatch(list) ==
    LET m == match(connectArgs, list)
    IN  IF m = Undefined
        THEN connectPc' = "resolved" /\ UNCHANGED selected
        ELSE connectPc' = "selectCustomization" /\ selected' = Append(selected, TheValue(m))

\* connectToEnterpriseSso or getStartUrl rejects, and so does the command.
ConnectThrows ==
    /\ connectPc \in {"connectToEnterpriseSso", "getStartUrl"}
    /\ connectPc' = "rejected"
    /\ UNCHANGED <<installVars, envVars, probeCalls, lookups, commandVars, connectArgs,
                   persistedCustomizations, persistedRead, selected>>

\* The connection is made: the command returns early without match information, waits
\* for notifyNewCustomizations when nothing is persisted, and selects the match otherwise.
ConnectDone ==
    /\ connectPc \in {"connectToEnterpriseSso", "getStartUrl"}
    /\ IF ~Truthy(connectArgs.arn) /\ ~Truthy(connectArgs.prefix)
       THEN connectPc' = "resolved" /\ UNCHANGED <<selected, persistedRead>>
       ELSE /\ persistedRead' = Some(persistedCustomizations)
            /\ IF Len(persistedCustomizations) = 0
               THEN connectPc' = "notifyNewCustomizations" /\ UNCHANGED selected
               ELSE SelectMatch(persistedCustomizations)
    /\ UNCHANGED <<installVars, envVars, probeCalls, lookups, commandVars, connectArgs,
                   persistedCustomizations>>

\* notifyNewCustomizations rejects, and so does the command.
NotifyThrows ==
    /\ connectPc = "notifyNewCustomizations"
    /\ connectPc' = "rejected"
    /\ UNCHANGED <<installVars, envVars, probeCalls, lookups, commandVars, connectArgs,
                   persistedCustomizations, persistedRead, selected>>

\* notifyNewCustomizations resolves, having persisted `list` (possibly nothing); the
\* command reads the persisted customizations again and selects the match.
NotifyDone(list) ==
    /\ connectPc = "notifyNewCustomizations"
    /\ persistedCustomizations' = list
    /\ persistedRead' = Some(list)
    /\ SelectMatch(list)
    /\ UNCHANGED <<installVars, envVars, probeCalls, lookups, commandVars, connectArgs>>

\* selectCustomization settles, and the command with it.
SelectDone ==
    /\ connectPc = "selectCustomization"
    /\ connectPc' \in {"resolved", "rejected"}
    /\ UNCHANGED <<installVars, envVars, probeCalls, lookups, commandVars, connectArgs,
                   persistedCustomizations, persistedRead, selected>>

\* aws.amazonq.notifyNewCustomizations is called and the notifyNewCustomizations it
\* starts without awaiting resolves, having persisted `list`; its rejection is only
\* logged.
NotifyNewCustomizationsCmd(list) ==
    /\ persistedCustomizations' = list
    /\ UNCHANGED <<installVars, envVars, probeCalls, lookups, commandVars, connectPc,
                   connectArgs, persistedRead, selected>>

NextConnect ==
    \/ \E enterprise \in BOOLEAN, arn \in ArnArgs, prefix \in PrefixArgs :
           ConnectWithCustomization(enterprise, arn, prefix)
    \/ ConnectThrows
    \/ ConnectDone
    \/ NotifyThrows
    \/ \E list \in PersistedLists : NotifyDone(list)
    \/ SelectDone
    \/ \E list \in PersistedLists : NotifyNewCustomizationsCmd(list)

SpecConnect == InitConnect /\ [][NextConnect]_vars

----------------------------------------------------------------------------
(* aws.amazonq.security.scan *)

\* The values of codeScanState.
ScanStates == {"NotStarted", "Running", "Cancelling"}

\* An entry of scanLog: what was done, by which invocation (0: by no invocation), and
\* the codeScanState it found.
ScanEvent(op, i, found) == [op |-> op, by |-> i, found |-> found]

\* The command with any free-tier flag, before its first invocation.
InitScan ==
    /\ platform = "linux"
    /\ globalAvail = {}
    /\ persistedCustomizations = <<>>
    /\ isFreeTierLimitReached \in BOOLEAN
    /\ suggestionsEnabled \in BOOLEAN
    /\ scansEnabled \in BOOLEAN
    /\ NothingStarted

\* A command body that launches a scan whatever the scan state is.
StartRegardless(i) ==
    /\ scanLog' = Append(scanLog, ScanEvent("startSecurityScanWithProgress", i, scanState))
    /\ scanPc' = [scanPc EXCEPT ![i] = "resolved"]
    /\ isFreeTierLimitReached' = FALSE
    /\ UNCHANGED scanState

\* The command from the isNotStarted test on, up to its next await: NotStarted is set
\* to Running and the scan launched without being awaited; Running asks to confirm the
\* stop; Cancelling does neither.
StartOrStop(i) ==
    IF scanState = "NotStarted"
    THEN /\ scanState' = "Running"
         /\ scanLog' = Append(scanLog,
                              ScanEvent("startSecurityScanWithProgress", i, scanState))
         /\ scanPc' = [scanPc EXCEPT ![i] = "resolved"]
         /\ isFreeTierLimitReached' = FALSE
    ELSE IF scanState = "Running"
    THEN /\ scanLog' = Append(scanLog, ScanEvent("confirmStopSecurityScan", i, scanState))
         /\ scanPc' = [scanPc EXCEPT ![i] = "confirmStopSecurityScan"]
         /\ UNCHANGED <<scanState, isFreeTierLimitReached>>
    ELSE /\ scanPc' = [scanPc EXCEPT ![i] = "resolved"]
         /\ isFreeTierLimitReached' = FALSE
         /\ UNCHANGED <<scanState, scanLog>>

\* The command is invoked: with an expired connection it first awaits
\* notifyReauthenticate, otherwise it goes on at once.
ShowSecurityScan(i, expired) ==
    /\ scanPc[i] = "idle"
    /\ IF expired
       THEN /\ scanPc' = [scanPc EXCEPT ![i] = "notifyReauthenticate"]
            /\ UNCHANGED <<scanState, scanLog, isFreeTierLimitReached>>
       ELSE StartOrStop(i)
    /\ UNCHANGED <<settingVars, besideScan>>

\* notifyReauthenticate resolves.
ReauthenticateDone(i) ==
    /\ scanPc[i] = "notifyReauthenticate"
    /\ StartOrStop(i)
    /\ UNCHANGED <<settingVars, besideScan>>

\* notifyReauthenticate rejects, and so does the command.
ReauthenticateThrows(i) ==
    /\ scanPc[i] = "notifyReauthenticate"
    /\ scanPc' = [scanPc EXCEPT ![i] = "rejected"]
    /\ UNCHANGED <<scanState, scanLog, isFreeTierLimitReached>>
    /\ UNCHANGED <<settingVars, besideScan>>

\* confirmStopSecurityScan resolves: a confirmed stop of a scan that is still Running
\* sets the state to Cancelling.
ConfirmStopDone(i, stop) ==
    /\ scanPc[i] = "confirmStopSecurityScan"
    /\ scanPc' = [scanPc EXCEPT ![i] = "resolved"]
    /\ scanState' = IF stop /\ scanState = "Running" THEN "Cancelling" ELSE scanState
    /\ isFreeTierLimitReached' = FALSE
    /\ UNCHANGED scanLog
    /\ UNCHANGED <<settingVars, besideScan>>

\* confirmStopSecurityScan rejects, and so does the command.
ConfirmStopThrows(i) ==
    /\ scanPc[i] = "confirmStopSecurityScan"
    /\ scanPc' = [scanPc EXCEPT ![i] = "rejected"]
    /\ UNCHANGED <<scanState, scanLog, isFreeTierLimitReached>>
    /\ UNCHANGED <<settingVars, besideScan>>

\* The scan launched by startSecurityScanWithProgress ends, completed or cancelled, and
\* puts the state back to NotStarted.
ScanEnds ==
    /\ scanState # "NotStarted"
    /\ scanState' = "NotStarted"
    /\ scanLog' = Append(scanLog, ScanEvent("setToNotStarted", 0, scanState))
    /\ UNCHANGED <<scanPc, isFreeTierLimitReached>>
    /\ UNCHANGED <<settingVars, besideScan>>

\* An entry of settingCalls: the command, its isAuto argument (undefined for the
\* toggles), what toggleScans resolved with (undefined until it has), and what the call
\* awaits.
SettingCall(command, isAuto, at) ==
    [command |-> command, isAuto |-> isAuto, isScansEnabled |-> Undefined, pc |-> at]

\* Call k goes on to `at`.
SettingGoes(k, at) == settingCalls' = [settingCalls EXCEPT ![k].pc = at]

\* aws.amazonq.toggleCodeSuggestion is called: inside the telemetry span it awaits
\* toggleSuggestions.
ToggleCodeSuggestions ==
    /\ Len(settingCalls) < MaxSettingCalls
    /\ settingCalls' = Append(settingCalls,
                              SettingCall("toggleCodeSuggestions", Undefined,
                                          "toggleSuggestions"))
    /\ UNCHANGED <<suggestionsEnabled, scansEnabled, contexts, statusBarMessage>>
    /\ UNCHANGED <<scanState, scanPc, scanLog, isFreeTierLimitReached>>
    /\ UNCHANGED besideScan

\* toggleSuggestions resolves with the new setting: the free-tier flag is cleared and the
\* status bar says whether auto-suggestions are running.
ToggleSuggestionsDone(k) ==
    /\ settingCalls[k].pc = "toggleSuggestions"
    /\ suggestionsEnabled' = ~suggestionsEnabled
    /\ isFreeTierLimitReached' = FALSE
    /\ statusBarMessage' = IF suggestionsEnabled'
                           THEN "Amazon Q: Auto-Suggestions are currently running."
                           ELSE "Amazon Q: Auto-Suggestions are currently paused."
    /\ SettingGoes(k, "resolved")
    /\ UNCHANGED <<scansEnabled, contexts>>
    /\ UNCHANGED <<scanState, scanPc, scanLog>>
    /\ UNCHANGED besideScan

\* aws.amazonq.enableCodeSuggestions is called: it awaits setSuggestionsEnabled(isAuto).
EnableCodeSuggestions(isAuto) ==
    /\ Len(settingCalls) < MaxSettingCalls
    /\ settingCalls' = Append(settingCalls,
                              SettingCall("enableCodeSuggestions", Some(isAuto),
                                          "setSuggestionsEnabled"))
    /\ UNCHANGED <<suggestionsEnabled, scansEnabled, contexts, statusBarMessage>>
    /\ UNCHANGED <<scanState, scanPc, scanLog, isFreeTierLimitReached>>
    /\ UNCHANGED besideScan

\* setSuggestionsEnabled resolves: the setting is isAuto, and the command sets the
\* context key aws.codewhisperer.connected.
SetSuggestionsEnabledDone(k) ==
    /\ settingCalls[k].pc = "setSuggestionsEnabled"
    /\ suggestionsEnabled' = TheValue(settingCalls[k].isAuto)
    /\ SettingGoes(k, "setContext(connected)")
    /\ UNCHANGED <<scansEnabled, contexts, statusBarMessage>>
    /\ UNCHANGED <<scanState, scanPc, scanLog, isFreeTierLimitReached>>
    /\ UNCHANGED besideScan

\* setContext('aws.codewhisperer.connected', true) resolves.
SetConnectedDone(k) ==
    /\ settingCalls[k].pc = "setContext(connected)"
    /\ contexts' = [contexts EXCEPT !.connected = Some(TRUE)]
    /\ SettingGoes(k, "setContext(connectionExpired)")
    /\ UNCHANGED <<suggestionsEnabled, scansEnabled, statusBarMessage>>
    /\ UNCHANGED <<scanState, scanPc, scanLog, isFreeTierLimitReached>>
    /\ UNCHANGED besideScan

\* setContext('aws.codewhisperer.connectionExpired', false) resolves: the free-tier flag
\* is cleared, and outside Cloud9 the command awaits the refresh of the status bar.
SetConnectionExpiredDone(k, isCloud9) ==
    /\ settingCalls[k].pc = "setContext(connectionExpired)"
    /\ contexts' = [contexts EXCEPT !.connectionExpired = Some(FALSE)]
    /\ isFreeTierLimitReached' = FALSE
    /\ SettingGoes(k, IF isCloud9 THEN "resolved" ELSE "refreshStatusBar")
    /\ UNCHANGED <<suggestionsEnabled, scansEnabled, statusBarMessage>>
    /\ UNCHANGED <<scanState, scanPc, scanLog>>
    /\ UNCHANGED besideScan

\* aws.amazonq.refreshStatusBar resolves, and the command with it.
RefreshStatusBarDone(k) ==
    /\ settingCalls[k].command = "enableCodeSuggestions"
    /\ settingCalls[k].pc = "refreshStatusBar"
    /\ SettingGoes(k, "resolved")
    /\ UNCHANGED <<suggestionsEnabled, scansEnabled, contexts, statusBarMessage>>
    /\ UNCHANGED <<scanState, scanPc, scanLog, isFreeTierLimitReached>>
    /\ UNCHANGED besideScan

\* aws.codeWhisperer.toggleCodeScan is called: inside the telemetry span it throws with a
\* Builder ID connection, and otherwise awaits toggleScans.
ToggleCodeScans(isBuilderId) ==
    /\ Len(settingCalls) < MaxSettingCalls
    /\ settingCalls' = Append(settingCalls,
                              SettingCall("toggleCodeScans", Undefined,
                                          IF isBuilderId THEN "rejected"
                                                         ELSE "toggleScans"))
    /\ UNCHANGED <<suggestionsEnabled, scansEnabled, contexts, statusBarMessage>>
    /\ UNCHANGED <<scanState, scanPc, scanLog, isFreeTierLimitReached>>
    /\ UNCHANGED besideScan

\* toggleScans resolves with the new setting, and the command awaits the refresh of the
\* status bar.
ToggleScansDone(k) ==
    /\ settingCalls[k].pc = "toggleScans"
    /\ scansEnabled' = ~scansEnabled
    /\ settingCalls' = [settingCalls EXCEPT ![k].isScansEnabled = Some(scansEnabled'),
                                            ![k].pc = "refreshStatusBar"]
    /\ UNCHANGED <<suggestionsEnabled, contexts, statusBarMessage>>
    /\ UNCHANGED <<scanState, scanPc, scanLog, isFreeTierLimitReached>>
    /\ UNCHANGED besideScan

\* aws.amazonq.refreshStatusBar resolves for the scans toggle: the status bar says whether
\* auto-scans are running, by what toggleScans resolved with.
ScansRefreshStatusBarDone(k) ==
    /\ settingCalls[k].command = "toggleCodeScans"
    /\ settingCalls[k].pc = "refreshStatusBar"
    /\ statusBarMessage' = IF TheValue(settingCalls[k].isScansEnabled)
                           THEN "Amazon Q: Auto-Scans are currently running."
                           ELSE "Amazon Q: Auto-Scans are currently paused."
    /\ SettingGoes(k, "resolved")
    /\ UNCHANGED <<suggestionsEnabled, scansEnabled, contexts>>
    /\ UNCHANGED <<scanState, scanPc, scanLog, isFreeTierLimitReached>>
    /\ UNCHANGED besideScan

\* What call k awaits rejects, and so does the command.
SettingThrows(k) ==
    /\ settingCalls[k].pc \notin {"resolved", "rejected"}
    /\ SettingGoes(k, "rejected")
    /\ UNCHANGED <<suggestionsEnabled, scansEnabled, contexts, statusBarMessage>>
    /\ UNCHANGED <<scanState, scanPc, scanLog, isFreeTierLimitReached>>
    /\ UNCHANGED besideScan

NextScan ==
    \/ ToggleCodeSuggestions
    \/ \E k \in DOMAIN settingCalls : ToggleSuggestionsDone(k)
    \/ \E isAuto \in BOOLEAN : EnableCodeSuggestions(isAuto)
    \/ \E k \in DOMAIN settingCalls : SetSuggestionsEnabledDone(k)
    \/ \E k \in DOMAIN settingCalls : SetConnectedDone(k)
    \/ \E k \in DOMAIN settingCalls, isCloud9 \in BOOLEAN : SetConnectionExpiredDone(k, isCloud9)
    \/ \E k \in DOMAIN settingCalls : RefreshStatusBarDone(k)
    \/ \E isBuilderId \in BOOLEAN : ToggleCodeScans(isBuilderId)
    \/ \E k \in DOMAIN settingCalls : ToggleScansDone(k)
    \/ \E k \in DOMAIN settingCalls : ScansRefreshStatusBarDone(k)
    \/ \E k \in DOMAIN settingCalls : SettingThrows(k)
    \/ \E i \in ScanInvocations, expired \in BOOLEAN : ShowSecurityScan(i, expired)
    \/ \E i \in ScanInvocations : ReauthenticateDone(i)
    \/ \E i \in ScanInvocations : ReauthenticateThrows(i)
    \/ \E i \in ScanInvocations, stop \in BOOLEAN : ConfirmStopDone(i, stop)
    \/ \E i \in ScanInvocations : ConfirmStopThrows(i)
    \/ ScanEnds

SpecScan == InitScan /\ [][NextScan]_vars

----------------------------------------------------------------------------
(* aws.amazonq.applySecurityFix *)

\* issue.suggestedFixes[0]: undefined for an issue without fixes, or the fix.
SuggestedFixes == {Undefined, Some("fix")}

\* The filePath argument: undefined, the empty string, or a path.
FilePaths == {Undefined, Some(<<>>), Some(<<"file">>)}

\* What applyPatch gives: the updated content, false for a patch that does not apply,
\* or an exception.
PatchOutcomes == {"content", "false", "throws"}

\* An entry of fixLog: a step of the command and whether it went through.
FixStep(op, ok) == [op |-> op, ok |-> ok]

\* The command with nothing invoked, auto-scans enabled or not.
InitFix ==
    /\ platform = "linux"
    /\ globalAvail = {}
    /\ persistedCustomizations = <<>>
    /\ isFreeTierLimitReached = FALSE
    /\ suggestionsEnabled = TRUE
    /\ scansEnabled \in BOOLEAN
    /\ NothingStarted

\* The catch and finally blocks: the result becomes Failed, the event is emitted and
\* the command returns.
FixCatch(i, steps) ==
    /\ fixLog' = [fixLog EXCEPT ![i] = fixLog[i] \o steps]
    /\ fixTelemetry' = [fixTelemetry EXCEPT ![i] = Append(fixTelemetry[i], "Failed")]
    /\ fixPc' = [fixPc EXCEPT ![i] = "resolved"]

\* The command is invoked: without a suggested fix or a file path it returns at once,
\* otherwise it opens the document.
ApplySecurityFix(i, suggestedFix, filePath) ==
    /\ fixPc[i] = "idle"
    /\ fixArgs' = [fixArgs EXCEPT ![i] = [suggestedFix |-> suggestedFix,
                                          filePath |-> filePath]]
    /\ fixPc' = [fixPc EXCEPT ![i] =
                    IF suggestedFix = Undefined \/ ~Truthy(filePath)
                    THEN "resolved" ELSE "openTextDocument"]
    /\ UNCHANGED <<fixLog, fixTelemetry>>
    /\ UNCHANGED besideFix

\* openTextDocument rejects.
OpenTextDocumentThrows(i) ==
    /\ fixPc[i] = "openTextDocument"
    /\ FixCatch(i, <<FixStep("openTextDocument", FALSE)>>)
    /\ UNCHANGED fixArgs
    /\ UNCHANGED besideFix

\* openTextDocument resolves and the patch is applied to the text: updated content goes
\* on to the workspace edit, `false` shows the error message and throws, an exception
\* of applyPatch is caught as well.
OpenTextDocumentDone(i, patched) ==
    /\ fixPc[i] = "openTextDocument"
    /\ IF patched = "content"
       THEN /\ fixLog' = [fixLog EXCEPT ![i] = fixLog[i] \o
                             <<FixStep("openTextDocument", TRUE), FixStep("applyPatch", TRUE)>>]
            /\ fixPc' = [fixPc EXCEPT ![i] = "applyEdit"]
            /\ UNCHANGED fixTelemetry
       ELSE FixCatch(i, <<FixStep("openTextDocument", TRUE), FixStep("applyPatch", FALSE)>>
                        \o (IF patched = "false"
                            THEN <<FixStep("showErrorMessage", TRUE)>> ELSE <<>>))
    /\ UNCHANGED fixArgs
    /\ UNCHANGED besideFix

\* applyEdit rejects.
ApplyEditThrows(i) ==
    /\ fixPc[i] = "applyEdit"
    /\ FixCatch(i, <<FixStep("applyEdit", FALSE)>>)
    /\ UNCHANGED fixArgs
    /\ UNCHANGED besideFix

\* applyEdit resolves: an edit that was not applied throws; otherwise the issue's
\* diagnostics are removed when auto-scans are enabled, and the issue webview is closed.
ApplyEditDone(i, isApplied) ==
    /\ fixPc[i] = "applyEdit"
    /\ IF isApplied
       THEN /\ fixLog' = [fixLog EXCEPT ![i] = fixLog[i] \o
                             <<FixStep("applyEdit", TRUE)>>
                             \o (IF scansEnabled
                                 THEN <<FixStep("removeDiagnostic", TRUE)>> ELSE <<>>)]
            /\ fixPc' = [fixPc EXCEPT ![i] = "closeSecurityIssueWebview"]
            /\ UNCHANGED fixTelemetry
       ELSE FixCatch(i, <<FixStep("applyEdit", FALSE)>>)
    /\ UNCHANGED fixArgs
    /\ UNCHANGED besideFix

\* closeSecurityIssueWebview rejects: it is awaited inside the try block.
CloseWebviewThrows(i) ==
    /\ fixPc[i] = "closeSecurityIssueWebview"
    /\ FixCatch(i, <<FixStep("closeSecurityIssueWebview", FALSE)>>)
    /\ UNCHANGED fixArgs
    /\ UNCHANGED besideFix

\* closeSecurityIssueWebview resolves: the finally block emits the event with the result
\* Succeeded.
CloseWebviewDone(i) ==
    /\ fixPc[i] = "closeSecurityIssueWebview"
    /\ fixLog' = [fixLog EXCEPT ![i] = Append(fixLog[i],
                                              FixStep("closeSecurityIssueWebview", TRUE))]
    /\ fixTelemetry' = [fixTelemetry EXCEPT ![i] = Append(fixTelemetry[i], "Succeeded")]
    /\ fixPc' = [fixPc EXCEPT ![i] = "resolved"]
    /\ UNCHANGED fixArgs
    /\ UNCHANGED besideFix

NextFix ==
    \/ \E i \in FixInvocations, suggestedFix \in SuggestedFixes, filePath \in FilePaths :
           ApplySecurityFix(i, suggestedFix, filePath)
    \/ \E i \in FixInvocations : OpenTextDocumentThrows(i)
    \/ \E i \in FixInvocations, patched \in PatchOutcomes : OpenTextDocumentDone(i, patched)
    \/ \E i \in FixInvocations : ApplyEditThrows(i)
    \/ \E i \in FixInvocations, isApplied \in BOOLEAN : ApplyEditDone(i, isApplied)
    \/ \E i \in FixInvocations : CloseWebviewThrows(i)
    \/ \E i \in FixInvocations : CloseWebviewDone(i)
    \/ \E isBuilderId \in BOOLEAN : ToggleCodeScans(isBuilderId)
    \/ \E k \in DOMAIN settingCalls : ToggleScansDone(k)
    \/ \E k \in DOMAIN settingCalls : ScansRefreshStatusBarDone(k)
    \/ \E k \in DOMAIN settingCalls : SettingThrows(k)

SpecFix == InitFix /\ [][NextFix]_vars

----------------------------------------------------------------------------
(* aws.amazonq.refreshConnectionCallback *)

\* What getApi gives: an API object, undefined, or an exception.
GetApiOutcomes == {"api", "undefined", "throws"}

\* A toolkit API object: the n-th execution is given object n, which has the methods
\* declareConnection and undeclareConnection or lacks them.
ApiObject(n, declares, undeclares) ==
    [id |-> n, declareConnection |-> declares, undeclareConnection |-> undeclares]

\* `'declareConnection' in api`, `'undeclareConnection' in api`.
HasMethod(api, method) ==
    IF method = "declareConnection" THEN api.declareConnection ELSE api.undeclareConnection

\* An entry of apiCalls: the method called on the stored API object, or the TypeError
\* of calling a method that `stored` does not have, and whether the command or a
\* listener called.
ApiCall(method, stored, by) ==
    [op |-> IF stored # Undefined /\ HasMethod(TheValue(stored), method)
            THEN method ELSE "TypeError",
     api |-> stored,
     by |-> by]

\* The command with nothing executed and no event fired.
InitApi ==
    /\ platform = "linux"
    /\ globalAvail = {}
    /\ persistedCustomizations = <<>>
    /\ isFreeTierLimitReached = FALSE
    /\ suggestionsEnabled = TRUE
    /\ scansEnabled = TRUE
    /\ NothingStarted

\* A registration that is not wrapped by once(): every call adds the two listeners.
registerToolkitApiCallbackEveryTime(ran, listeners) ==
    [onDidChangeConnectionState |-> listeners.onDidChangeConnectionState + 1,
     onDidDeleteConnection |-> listeners.onDidDeleteConnection + 1]

\* registerToolkitApiCallbackOnce(): the wrapped function adds a listener to each of the
\* two events of Auth, the first time only.
registerToolkitApiCallbackOnce(ran, listeners) ==
    IF ran THEN listeners
    ELSE [onDidChangeConnectionState |-> listeners.onDidChangeConnectionState + 1,
          onDidDeleteConnection |-> listeners.onDidDeleteConnection + 1]

\* The command runs to completion.  With the Toolkit installed it stores what getApi
\* gives, of the argument when there is one, of the Toolkit's exports when the Toolkit
\* is active; with an API stored it registers the listeners and declares the current
\* connection when that is an SSO connection.  The n-th execution is given API object n.
RegisterToolkitApiCallback(installed, given, active, obtained, declares, undeclares, sso) ==
    LET n == Len(apiExecutions) + 1
        assigns == installed /\ (given \/ active)
        got == IF obtained = "api" THEN Some(ApiObject(n, declares, undeclares))
               ELSE Undefined
        getApiThrows == assigns /\ obtained = "throws"
        stored == IF assigns /\ ~getApiThrows THEN got ELSE toolkitApi
        registers == installed /\ ~getApiThrows /\ stored # Undefined
        listeners == IF registers
                     THEN registerToolkitApiCallbackOnce(onceRan, authListeners)
                     ELSE authListeners
        declared == IF registers /\ sso
                    THEN <<ApiCall("declareConnection", stored, "command")>> ELSE <<>>
    IN  /\ n <= MaxExecutions
        /\ toolkitApi' = stored
        /\ onceRan' = (onceRan \/ registers)
        /\ authListeners' = listeners
        /\ apiCalls' = apiCalls \o declared
        /\ apiExecutions' = Append(apiExecutions,
                                   [assigned |-> assigns /\ ~getApiThrows,
                                    obtained |-> got,
                                    stored |-> stored,
                                    listeners |-> listeners,
                                    rejected |-> \/ getApiThrows
                                                 \/ \E c \in {declared[i] : i \in DOMAIN declared} :
                                                        c.op = "TypeError"])
        /\ UNCHANGED <<awaiting, authEvents>>
        /\ UNCHANGED besideApi

\* Auth fires onDidChangeConnectionState: each registered listener, with an API stored
\* that has declareConnection, awaits getConnection.
ConnectionStateChanged ==
    /\ authEvents < MaxAuthEvents
    /\ authEvents' = authEvents + 1
    /\ awaiting' = awaiting +
           (IF toolkitApi # Undefined /\ HasMethod(TheValue(toolkitApi), "declareConnection")
            THEN authListeners.onDidChangeConnectionState ELSE 0)
    /\ UNCHANGED <<toolkitApi, onceRan, authListeners, apiCalls, apiExecutions>>
    /\ UNCHANGED besideApi

\* getConnection resolves in a listener: an SSO connection is declared on the API that
\* is stored by now, which is a TypeError when none is or it has no declareConnection.
GetConnectionDone(sso) ==
    /\ awaiting > 0
    /\ awaiting' = awaiting - 1
    /\ apiCalls' = IF sso
                   THEN Append(apiCalls, ApiCall("declareConnection", toolkitApi, "listener"))
                   ELSE apiCalls
    /\ UNCHANGED <<toolkitApi, onceRan, authListeners, apiExecutions, authEvents>>
    /\ UNCHANGED besideApi

\* getConnection rejects in a listener.
GetConnectionThrows ==
    /\ awaiting > 0
    /\ awaiting' = awaiting - 1
    /\ UNCHANGED <<toolkitApi, onceRan, authListeners, apiCalls, apiExecutions, authEvents>>
    /\ UNCHANGED besideApi

\* Auth fires onDidDeleteConnection: each registered listener, with an API stored that
\* has undeclareConnection, undeclares the connection of an SSO profile.
ConnectionDeleted(sso) ==
    /\ authEvents < MaxAuthEvents
    /\ authEvents' = authEvents + 1
    /\ apiCalls' = apiCalls \o
           [k \in 1..(IF /\ toolkitApi # Undefined
                         /\ HasMethod(TheValue(toolkitApi), "undeclareConnection")
                         /\ sso
                      THEN authListeners.onDidDeleteConnection ELSE 0) |->
               ApiCall("undeclareConnection", toolkitApi, "listener")]
    /\ UNCHANGED <<toolkitApi, onceRan, authListeners, apiExecutions, awaiting>>
    /\ UNCHANGED besideApi

NextApi ==
    \/ \E installed \in BOOLEAN, given \in BOOLEAN, active \in BOOLEAN,
          obtained \in GetApiOutcomes, declares \in BOOLEAN, undeclares \in BOOLEAN,
          sso \in BOOLEAN :
           RegisterToolkitApiCallback(installed, given, active, obtained, declares,
                                      undeclares, sso)
    \/ ConnectionStateChanged
    \/ \E sso \in BOOLEAN : GetConnectionDone(sso)
    \/ GetConnectionThrows
    \/ \E sso \in BOOLEAN : ConnectionDeleted(sso)

SpecApi == InitApi /\ [][NextApi]_vars

----------------------------------------------------------------------------
(* Vocabulary of the properties *)

\* installCli's promise is settled: the finally block has run.
Settled(s) == pc[s] = "settled"

\* No continuation of the session is left to run: its promise is settled, or it awaits
\* a promise that nothing will settle.
Over(s) == pc[s] \in {"settled", "never"}

\* The events of a session with their positions.
Events(s) == {log[s][i] : i \in DOMAIN log[s]}
Did(s, ops) == \E e \in Events(s) : e.op \in ops

\* The child processes the platform installers start.
InstallerProcesses == {"msiexec", "installer", "sh", "pkgutil", "tar", "ar"}

\* The steps of the download stage and of the platform installers.
InstallSteps ==
    InstallerProcesses \cup
        {"fetch", "chmodSync", "writeFileSync", "extractAllTo", "mkdirSync", "copySync"}

\* Some step of the download stage or of the platform installer raised an error: a host
\* call threw, or an installer of the AWS CLI threw for a non-zero exit code.
StepThrew(s) ==
    \E e \in Events(s) :
        \/ e.op \in InstallSteps /\ e.threw
        \/ e.op \in {"msiexec", "installer", "sh"} /\ e.exitCode # 0

\* The local probe ran: the binary under the managed directory was executed.
ProbeStarted(s) == pc[s] = "probe" \/ Did(s, {"probe"})

FailedRecord(s) == [result |-> "Failed", cli |-> cli[s]]

----------------------------------------------------------------------------
(* Properties *)

\* C1: every installCli session emits exactly one install telemetry record, whatever
\* the results of its steps: never more than one, and one once no continuation of the
\* session is left to run.
ExactlyOneTelemetryRecord ==
    \A s \in Sessions :
        /\ Len(telemetry[s]) <= 1
        /\ Over(s) => Len(telemetry[s]) = 1

\* C2: when a step of the download stage or of the platform installer throws, the
\* session ends Failed (installCli rejects, telemetry records Failed) and the local
\* probe is never run.
InstallErrorEndsFailed ==
    \A s \in Sessions :
        StepThrew(s) =>
            /\ Settled(s)
            /\ outcome[s].kind = "throw"
            /\ telemetry[s] = <<FailedRecord(s)>>
            /\ ~ProbeStarted(s)

\* C3: a session that created a scratch directory starts the recursive removal of that
\* directory exactly once on every exit path (return or throw) after the creation; no
\* session starts a removal before it exits, of another directory, or twice.
ScratchRemovalStartedOnce ==
    \A s \in Sessions :
        /\ Len(cleanup[s]) <= 1
        /\ \A i \in DOMAIN cleanup[s] :
               Settled(s) /\ tempDir[s] = Some(cleanup[s][i].dir)
        /\ \A e \in Events(s) :
               Settled(s) /\ e.op = "makeTemporaryToolkitFolder" /\ ~e.threw =>
                   /\ Len(cleanup[s]) = 1
                   /\ \A i \in DOMAIN cleanup[s] : cleanup[s][i].dir = e.arg

\* A session threw out of the installer after creating its scratch directory, and the
\* removal of that directory was started.
ScratchRemovalWitness ==
    \E s \in Sessions :
        /\ Settled(s)
        /\ outcome[s].error.class = "InstallerError"
        /\ outcome[s].error.exitCode = 1
        /\ TempFolder(s) \in {e.arg : e \in Events(s)}
        /\ Len(cleanup[s]) = 1

\* The prompt of the session was answered with `selection`.
Selected(s, selection) ==
    \E e \in Events(s) :
        e.op = "showInformationMessage" /\ ~e.threw /\ e.arg = <<selection>>

\* C4: when the user dismisses the prompt or picks 'Install manually...', installCli
\* returns undefined, telemetry records Cancelled, and no scratch directory is created,
\* no download started, no installer process run and no probe executed.
DeclineDoesNothing ==
    \A s \in Sessions :
        Selected(s, dismissed) \/ Selected(s, manualInstall) =>
            /\ Settled(s)
            /\ outcome[s] = Returned(Undefined)
            /\ telemetry[s] = <<[result |-> "Cancelled", cli |-> cli[s]]>>
            /\ tempDir[s] = Undefined
            /\ TempFolder(s) \notin scratch
            /\ ~Did(s, {"makeTemporaryToolkitFolder", "probe"} \cup InstallSteps)
            /\ cleanup[s] = <<>>

\* A session ended by 'Install manually...'.
DeclineWitness ==
    \E s \in Sessions : Selected(s, manualInstall) /\ Settled(s)

\* The local probe of the session closed with exit code 0.
LocalProbeSucceeded(s) ==
    \E e \in Events(s) :
        /\ e.op = "probe"
        /\ e.arg = getToolkitCliDir \o <<"Amazon">> \o getOsCommand(cli[s], platform)
        /\ e.exitCode = 0

\* C5: when the platform installer completed without error and the local probe did not
\* exit 0, installCli rejects with InstallerError('Could not verify installed CLIs') and
\* telemetry records Failed, also when the tool is available on the search path.
FailedProbeFailsInstall ==
    \A s \in Sessions :
        Settled(s) /\ cliPath[s] # Undefined /\ ~LocalProbeSucceeded(s) =>
            /\ outcome[s].kind = "throw"
            /\ outcome[s].error.class = "InstallerError"
            /\ outcome[s].error.message = "Could not verify installed CLIs"
            /\ telemetry[s] = <<FailedRecord(s)>>

\* The installer completed, the local probe failed and the tool is on the search path.
FailedProbeWitness ==
    \E s \in Sessions :
        /\ Settled(s)
        /\ cliPath[s] # Undefined
        /\ \E e \in Events(s) : e.op = "probe" /\ e.exitCode # 0
        /\ cli[s] \in globalAvail
        /\ outcome[s] = Thrown(VerifyError)

\* C6: the telemetry result matches what installCli gives its caller: Succeeded exactly
\* when it returns a path, Cancelled exactly when it returns undefined, Failed exactly
\* when it throws; the recorded cli is the tool id passed in; nothing is recorded before
\* the promise settles.
TelemetryMatchesOutcome ==
    \A s \in Sessions :
        /\ outcome[s].kind = "pending" <=> telemetry[s] = <<>>
        /\ \A i \in DOMAIN telemetry[s] :
            /\ telemetry[s][i].cli = cli[s]
            /\ telemetry[s][i].result = "Succeeded"
                 <=> outcome[s].kind = "return" /\ outcome[s].value # Undefined
            /\ telemetry[s][i].result = "Cancelled"
                 <=> outcome[s].kind = "return" /\ outcome[s].value = Undefined
            /\ telemetry[s][i].result = "Failed" <=> outcome[s].kind = "throw"

\* One session returned a path for ssm, another returned undefined for aws.
TelemetryWitness ==
    \E s, t \in Sessions :
        /\ outcome[s].kind = "return" /\ outcome[s].value # Undefined /\ cli[s] = "ssm"
        /\ outcome[t] = Returned(Undefined) /\ cli[t] = "aws"
        /\ telemetry[s] # <<>> /\ telemetry[t] # <<>>

\* C7: a non-zero exit code of any process a platform installer invokes makes that
\* installer raise an InstallerError and the session end Failed; no later install step of
\* the session runs after the failing process.
NonZeroExitFailsInstaller ==
    \A s \in Sessions :
        \A i \in DOMAIN log[s] :
            log[s][i].op \in InstallerProcesses /\ log[s][i].exitCode # 0 =>
                /\ i = Len(log[s])
                /\ Settled(s)
                /\ outcome[s].kind = "throw"
                /\ outcome[s].error.class = "InstallerError"
                /\ telemetry[s] = <<FailedRecord(s)>>

\* C8: the path installCli returns on success is the directory that contains the tool's
\* binary: the directory of the path the local probe executed (managed directory,
\* 'Amazon', relative binary path).
ReturnsBinaryDirectory ==
    \A s \in Sessions :
        outcome[s].kind = "return" /\ outcome[s].value # Undefined =>
            LET binary == getToolkitCliDir \o <<"Amazon">> \o getOsCommand(cli[s], platform)
            IN  /\ \E e \in Events(s) : e.op = "probe" /\ e.arg = binary
                /\ outcome[s].value = Some(SubSeq(binary, 1, Len(binary) - 1))

\* The bare command name of a tool on a platform.
BareCommand(c, os) ==
    IF c = "aws"
    THEN IF os = "win32" THEN <<"aws.exe">> ELSE <<"aws">>
    ELSE IF os = "win32" THEN <<"session-manager-plugin.exe">>
         ELSE <<"session-manager-plugin">>

\* The path of a tool's binary under the managed install directory.
LocalCommand(c, os) ==
    IF c = "aws"
    THEN <<"globalStorage", "cli", "Amazon", "AWSCLIV2">> \o BareCommand(c, os)
    ELSE <<"globalStorage", "cli", "Amazon", "sessionmanagerplugin", "bin">>
             \o BareCommand(c, os)

\* The getCliCommand calls that have settled.
Calls == {probeCalls[i] : i \in {j \in DOMAIN probeCalls : probeCalls[j].outcome # Pending}}

\* The exit codes of the call's global and local probes; a probe that did not run has none.
ExitsOf(call, global) ==
    {call.runs[i].exitCode : i \in {j \in DOMAIN call.runs : call.runs[j].global = global}}

\* C9: getCliCommand returns the first probe that succeeds in the order global, local:
\* the bare command name when the global probe exits 0, without the local probe being
\* run; otherwise the full path under the managed install directory when the local probe
\* exits 0.
GlobalBeforeLocal ==
    \A call \in Calls :
        /\ call.runs[1].command = BareCommand(call.cli, platform)
        /\ ExitsOf(call, TRUE) = {0} =>
               /\ call.outcome = Returned(Some(BareCommand(call.cli, platform)))
               /\ Len(call.runs) = 1
        /\ ExitsOf(call, TRUE) = {1} /\ ExitsOf(call, FALSE) = {0} =>
               call.outcome = Returned(Some(LocalCommand(call.cli, platform)))

\* A call settled by the global probe and one settled by the local probe.
GlobalBeforeLocalWitness ==
    /\ \E call \in Calls : ExitsOf(call, TRUE) = {0} /\ call.outcome.value # Undefined
    /\ \E call \in Calls :
           /\ ExitsOf(call, TRUE) = {1} /\ ExitsOf(call, FALSE) = {0}
           /\ call.outcome.value # Undefined

\* C10: when neither the global nor the local probe exits 0, getCliCommand returns
\* undefined and does not throw.
UnavailableIsUndefined ==
    \A call \in Calls :
        (\A i \in DOMAIN call.runs : call.runs[i].exitCode # 0) =>
            /\ call.outcome = Returned(Undefined)
            /\ ExitsOf(call, TRUE) = {1} /\ ExitsOf(call, FALSE) = {1}

\* A call where both probes ran, in the order global, local, and neither exited 0.
UnavailableWitness ==
    \E call \in Calls :
        /\ ExitsOf(call, TRUE) = {1} /\ ExitsOf(call, FALSE) = {1}
        /\ <<call.runs[1].command, call.runs[2].command>> =
               <<BareCommand(call.cli, platform), LocalCommand(call.cli, platform)>>

----------------------------------------------------------------------------
(* Properties of the platform lookups *)

Lookups == {lookups[i] : i \in DOMAIN lookups}

\* A path or URL with at least one component, none of them empty.
NonEmpty(opt) ==
    /\ opt # Undefined
    /\ Len(TheValue(opt)) > 0
    /\ \A i \in DOMAIN TheValue(opt) : TheValue(opt)[i] # ""

RaisesInvalidPlatform(call) ==
    call.kind = "throw" /\ call.error.class = "InvalidPlatformError"

\* C11: for every tool, on each of the three supported platforms the source lookup and
\* the command lookup both return a non-empty value, and on every other platform both
\* lookups raise InvalidPlatformError.
ResolverRaisesOnBothLookups ==
    \A l \in Lookups :
        /\ platform \in SupportedPlatforms =>
               /\ l.source.kind = "return" /\ NonEmpty(l.source.value)
               /\ l.command.kind = "return" /\ NonEmpty(l.command.value)
        /\ platform \notin SupportedPlatforms =>
               /\ RaisesInvalidPlatform(l.source)
               /\ RaisesInvalidPlatform(l.command)

----------------------------------------------------------------------------
(* Properties of the installer, continued *)

\* makeTemporaryToolkitFolder resolved in the session.
ScratchCreated(s) ==
    \E e \in Events(s) : e.op = "makeTemporaryToolkitFolder" /\ ~e.threw

\* The session neither downloaded nor ran an installer step, is not awaiting one, and
\* nothing was written under the managed install directory.
NoPartialWork(s) ==
    /\ ~Did(s, InstallSteps)
    /\ pc[s] \notin InstallerProcesses \cup {"fetch"}
    /\ managed = {}

\* C12 as claimed: on an unsupported platform a session whose user picked Install
\* rejects with the InvalidPlatformError itself, having downloaded nothing, run no
\* process and written nothing under the managed install directory.
UnsupportedPlatformRejects ==
    \A s \in Sessions :
        platform \notin SupportedPlatforms /\ Selected(s, install) =>
            /\ Settled(s) => outcome[s] = Thrown(InvalidPlatform)
            /\ NoPartialWork(s)

\* C12, amended: on an unsupported platform a session whose user picked Install and
\* whose scratch directory was created rejects with the InvalidPlatformError itself,
\* having downloaded nothing, run no process and written nothing under the managed
\* install directory.
UnsupportedPlatformRejectsAfterScratch ==
    \A s \in Sessions :
        platform \notin SupportedPlatforms /\ Selected(s, install) /\ ScratchCreated(s) =>
            /\ Settled(s)
            /\ outcome[s] = Thrown(InvalidPlatform)
            /\ NoPartialWork(s)

\* A session on an unsupported platform that was confirmed, got its scratch directory
\* and rejected.
UnsupportedPlatformWitness ==
    \E s \in Sessions :
        /\ platform \notin SupportedPlatforms
        /\ Selected(s, install) /\ ScratchCreated(s)
        /\ outcome[s].kind = "throw"
        /\ log[s][Len(log[s])].op = "makeTemporaryToolkitFolder"

\* The removal of the session's scratch directory ended in `state`.
RemovalEnded(s, state) ==
    \E i \in DOMAIN cleanup[s] : cleanup[s][i].state = state

\* C13: what installCli returned or threw, its result and its telemetry record stay as
\* they were when the session settled, whether the removal of the scratch directory
\* then succeeds or fails.
RemovalLeavesOutcome ==
    [][\A s \in Sessions :
           Settled(s) =>
               /\ outcome'[s] = outcome[s]
               /\ result'[s] = result[s]
               /\ telemetry'[s] = telemetry[s]]_vars

\* Two sessions that installed the same tool with the same returned path and the same
\* telemetry record: the removal failed for one and succeeded for the other.
RemovalWitness ==
    \E s, t \in Sessions :
        /\ RemovalEnded(s, "failed") /\ RemovalEnded(t, "removed")
        /\ cli[s] = cli[t]
        /\ outcome[s].kind = "return" /\ outcome[s] = outcome[t]
        /\ Len(telemetry[s]) = 1 /\ telemetry[s] = telemetry[t]

\* The steps of installCli itself, in order: the session's log without the links the
\* user opened from an error notification afterwards.
OwnSteps(s) ==
    LET IsOwn(e) == e.op # "openExternal" \/ notification[s] = <<>>
    IN  SelectSeq(log[s], IsOwn)

\* The links the user opened from the session's error notifications.
LinksFromNotification(s) ==
    LET IsLink(e) == e.op = "openExternal" /\ notification[s] # <<>>
    IN  SelectSeq(log[s], IsLink)

\* The session ended Failed: installCli rejected.
EndedFailed(s) == Settled(s) /\ outcome[s].kind = "throw"

\* An event that raised an error in installCli's try block: a host call that threw, or
\* an installer of the AWS CLI that closed with a non-zero exit code.
RaisedError(e) ==
    \/ e.threw
    \/ e.op \in {"msiexec", "installer", "sh"} /\ e.exitCode # 0

\* C14: a session that ended Failed has shown exactly one error notification, which
\* offers 'Install manually...'; any other session has shown none; and in no session
\* is a step run twice or any step run after one that raised an error.
OneErrorNotification ==
    \A s \in Sessions :
        /\ EndedFailed(s) => notification[s] = << <<manualInstall>> >>
        /\ ~EndedFailed(s) => notification[s] = <<>>
        /\ \A i, j \in DOMAIN OwnSteps(s) :
               i < j => /\ ~RaisedError(OwnSteps(s)[i])
                        /\ ~(OwnSteps(s)[i].op = OwnSteps(s)[j].op
                             /\ OwnSteps(s)[i].arg = OwnSteps(s)[j].arg)
        /\ Len(LinksFromNotification(s)) <= Len(notification[s])

\* A session that ended Failed after an installer step raised an error, next to one
\* that ended Succeeded.
OneErrorNotificationWitness ==
    \E s, t \in Sessions :
        /\ EndedFailed(s) /\ result[s] = "Failed"
        /\ \E e \in Events(s) : RaisedError(e) /\ e.op \in InstallSteps
        /\ Len(notification[s]) = 1
        /\ Settled(t) /\ result[t] = "Succeeded" /\ notification[t] = <<>>

\* The steps of the platform installers: every step after the download.
PlatformInstallerSteps == InstallSteps \ {"fetch"}

\* The path under the managed root that an installer step installed into: for msiexec
\* and installer the package's directory beneath the one handed to it, otherwise the
\* step's own target.
WrittenAt(e) ==
    CASE e.op = "msiexec" -> msiInstallDir(e.arg)
      [] e.op = "installer" -> pkgInstallDir(e.arg)
      [] OTHER -> e.arg

\* The events the step appends to the session's log.
NewEvents(s) == {log'[s][i] : i \in (Len(log[s]) + 1)..Len(log'[s])}

\* C15: a step adds a path to the managed install directory only as the target of a
\* platform-installer step it runs; a step of a session that is at the prompt, awaiting
\* its scratch directory, running the probe or over (the removal of its scratch
\* directory included), the cancel path and a failed download leave the directory as
\* it is.
ManagedWrittenByInstallersOnly ==
    [][/\ \A p \in managed' \ managed :
              \E s \in Sessions :
                  \E e \in NewEvents(s) :
                      e.op \in PlatformInstallerSteps /\ WrittenAt(e) = p
       /\ \A s \in Sessions :
              /\ pc[s] \in {"idle", "showInformationMessage", "makeTemporaryToolkitFolder",
                             "probe", "settled", "never"}
              /\ pc'[s] # pc[s] \/ cleanup'[s] # cleanup[s]
              => managed' = managed
       /\ \A s \in Sessions :
              (\E e \in NewEvents(s) : e.op = "fetch" /\ e.threw) => managed' = managed]_vars

\* An installer wrote to the managed install directory, the probe ran, the scratch
\* directory was removed, and another session was cancelled.
ManagedWrittenWitness ==
    \E s, t \in Sessions :
        /\ managed # {}
        /\ \A p \in managed :
               \E e \in Events(s) : e.op \in PlatformInstallerSteps /\ WrittenAt(e) = p
        /\ Did(s, {"probe"}) /\ RemovalEnded(s, "removed")
        /\ Settled(t) /\ result[t] = "Cancelled"

\* The session has its scratch directory and its promise is not settled.
UsesScratch(s) == tempDir[s] # Undefined /\ ~Settled(s)

\* C16: with two sessions in flight, each downloads into its own scratch directory and
\* starts the removal of that directory only; the scratch directory of a session that
\* has not settled still exists, whatever the other session removed; and each session's
\* telemetry records carry its own tool and its own result, which agrees with how its
\* own promise settled.
SessionsKeepApart ==
    /\ \A s, t \in Sessions :
           s # t /\ tempDir[s] # Undefined =>
               /\ tempDir[t] # tempDir[s]
               /\ \A e \in Events(t) :
                      e.op = "fetch" => ~IsUnder(e.arg, TheValue(tempDir[s]))
               /\ \A i \in DOMAIN cleanup[t] : cleanup[t][i].dir # TheValue(tempDir[s])
    /\ \A s \in Sessions :
           /\ \A e \in Events(s) :
                  e.op = "fetch" => /\ tempDir[s] # Undefined
                                    /\ IsUnder(e.arg, TheValue(tempDir[s]))
           /\ \A i \in DOMAIN cleanup[s] : Some(cleanup[s][i].dir) = tempDir[s]
           /\ UsesScratch(s) => TheValue(tempDir[s]) \in scratch
           /\ \A i \in DOMAIN telemetry[s] :
                  /\ telemetry[s][i] = [result |-> result[s], cli |-> cli[s]]
                  /\ result[s] = "Failed" <=> outcome[s].kind = "throw"
                  /\ result[s] = "Succeeded" =>
                         outcome[s] = Returned(cliPath[s]) /\ cliPath[s] # Undefined

\* One session has failed and its scratch directory is removed while the other, which
\* installs the other tool, has downloaded and is still running its installer.
SessionsKeepApartWitness ==
    \E s, t \in Sessions :
        /\ cli[s] # cli[t]
        /\ EndedFailed(s) /\ RemovalEnded(s, "removed")
        /\ UsesScratch(t) /\ pc[t] \in InstallerProcesses
        /\ \E e \in Events(t) : e.op = "fetch" /\ ~e.threw

----------------------------------------------------------------------------
(* Properties of aws.codeWhisperer.connect *)

\* Customization c has the ARN the command was given.
HasArn(c) == c.arn = TheValue(connectArgs.arn)

\* Customization c has a name that begins with the prefix the command was given.
HasPrefix(c) ==
    /\ c.name # Undefined
    /\ LET name == TheValue(c.name)
           prefix == TheValue(connectArgs.prefix)
       IN  /\ Len(prefix) <= Len(name)
           /\ \A k \in 1..Len(prefix) : name[k] = prefix[k]

\* selectCustomization was called once, with the first customization that passes the
\* test in the persisted list the command read, or not at all when none passes.
SelectedFirst(Test(_)) ==
    LET list == TheValue(persistedRead)
    IN  IF \E i \in DOMAIN list : Test(list[i])
        THEN \E i \in DOMAIN list :
                 /\ selected = <<list[i]>>
                 /\ Test(list[i])
                 /\ \A j \in 1..(i - 1) : ~Test(list[j])
        ELSE selected = <<>>

\* C17: once the command has read the persisted customizations, it has selected the
\* first one whose arn equals customizationArn when an ARN is given (a non-empty
\* string), whatever the prefix; the first one whose name starts with
\* customizationNamePrefix when only a prefix is given; and none when neither is given
\* or nothing matches.  Before that it has selected nothing.
SelectsByArnElsePrefix ==
    /\ connectPc \in {"idle", "connectToEnterpriseSso", "getStartUrl",
                       "notifyNewCustomizations"} => selected = <<>>
    /\ connectPc \in {"selectCustomization", "resolved"} =>
           IF Truthy(connectArgs.arn) THEN SelectedFirst(HasArn)
           ELSE IF Truthy(connectArgs.prefix) THEN SelectedFirst(HasPrefix)
           ELSE selected = <<>>

\* The command resolved with an ARN and a prefix given, a customization of that prefix
\* persisted ahead of the one with that ARN when the command read the list, the latter
\* selected, and the persisted list replaced since.
SelectsByArnWitness ==
    /\ connectPc = "resolved"
    /\ Truthy(connectArgs.arn) /\ Truthy(connectArgs.prefix)
    /\ persistedRead # Undefined
    /\ LET list == TheValue(persistedRead)
       IN  /\ Len(list) = 2
           /\ HasPrefix(list[1]) /\ ~HasArn(list[1])
           /\ HasArn(list[2])
           /\ selected = <<list[2]>>
           /\ persistedCustomizations # list

\* The stage of installCli a host primitive belongs to: 1 confirmation, 2 scratch
\* directory, 3 download, 4 platform installer, 5 verification by the local probe.
Stage(op) ==
    CASE op \in {"showInformationMessage", "openExternal"} -> 1
      [] op = "makeTemporaryToolkitFolder" -> 2
      [] op = "fetch" -> 3
      [] op \in PlatformInstallerSteps -> 4
      [] op = "probe" -> 5

\* The session awaits a host primitive: a stage is in progress.
InProgress(s) == pc[s] \notin {"idle", "settled", "never"}

\* Stage b may follow stage a: it is the next one, or another step of the same stage
\* where the stage has several.
Follows(a, b) == b = a + 1 \/ (a = b /\ a \in {1, 4})

\* C18: within a session the stages run in the order confirmation, scratch directory,
\* download, platform installer, local probe, each starting only when the one before
\* it has completed without error: the completed steps are in that order with none
\* skipped, the step in progress (one at most) is that of the last completed stage or
\* of the next, the installer starts only after the download completed, the probe only
\* after the installer returned, and a session ends Succeeded only from the probe.
StagesInOrder ==
    \A s \in Sessions :
        /\ log[s] # <<>> => log[s][1].op = "showInformationMessage"
        /\ \A j \in 2..Len(OwnSteps(s)) :
               /\ Follows(Stage(OwnSteps(s)[j - 1].op), Stage(OwnSteps(s)[j].op))
               /\ ~RaisedError(OwnSteps(s)[j - 1])
        /\ InProgress(s) =>
               IF log[s] = <<>> THEN Stage(pc[s]) = 1
               ELSE /\ Stage(pc[s]) > 1
                    /\ Follows(Stage(log[s][Len(log[s])].op), Stage(pc[s]))
                    /\ ~RaisedError(log[s][Len(log[s])])
        /\ pc[s] \in InstallerProcesses \/ Did(s, PlatformInstallerSteps) =>
               \E e \in Events(s) : e.op = "fetch" /\ ~e.threw
        /\ ProbeStarted(s) => cliPath[s] # Undefined /\ Did(s, PlatformInstallerSteps)
        /\ Settled(s) /\ result[s] = "Succeeded" =>
               log[s][Len(log[s])].op = "probe"
        /\ \A i \in DOMAIN log[s] :
               log[s][i].op = "openExternal" /\ notification[s] # <<>> =>
                   Settled(s) /\ \A j \in DOMAIN log[s] : RaisedError(log[s][j]) => j < i

\* A session that went through the five stages and ended Succeeded.
StagesInOrderWitness ==
    \E s \in Sessions :
        /\ Settled(s) /\ result[s] = "Succeeded"
        /\ {Stage(e.op) : e \in Events(s)} = 1..5

\* C19: a session does not wait for the removal of its scratch directory: from the
\* moment the removal is started, and for as long as it stays unfinished, installCli's
\* promise is settled and the telemetry record is emitted.
SettlesWithoutRemoval ==
    \A s \in Sessions :
        cleanup[s] # <<>> =>
            /\ Settled(s)
            /\ outcome[s].kind \in {"return", "throw"}
            /\ Len(telemetry[s]) = 1

\* A session returned the installed path and emitted its record while the removal of
\* its scratch directory is unfinished and the directory still exists.
SettlesWithoutRemovalWitness ==
    \E s \in Sessions :
        /\ RemovalEnded(s, "pending")
        /\ TheValue(tempDir[s]) \in scratch
        /\ outcome[s].kind = "return" /\ outcome[s].value # Undefined
        /\ telemetry[s] = <<[result |-> "Succeeded", cli |-> cli[s]]>>

\* makeTemporaryToolkitFolder rejected in the session.
ScratchFailed(s) ==
    \E e \in Events(s) : e.op = "makeTemporaryToolkitFolder" /\ e.threw

\* C20: when the user picked Install and the creation of the scratch directory fails,
\* the session ends Failed (installCli rejects with the allocator's error, the one
\* telemetry record says Failed), and it has downloaded nothing, run no installer step
\* and no probe, and started no removal.
ScratchFailureEndsFailed ==
    \A s \in Sessions :
        ScratchFailed(s) =>
            /\ Selected(s, install)
            /\ Settled(s)
            /\ outcome[s] = Thrown(HostError("makeTemporaryToolkitFolder"))
            /\ result[s] = "Failed"
            /\ telemetry[s] = <<FailedRecord(s)>>
            /\ ~Did(s, InstallSteps \cup {"probe"})
            /\ tempDir[s] = Undefined
            /\ cleanup[s] = <<>>

\* A session whose user picked Install and whose scratch directory could not be
\* created.
ScratchFailureWitness ==
    \E s \in Sessions :
        /\ Selected(s, install) /\ ScratchFailed(s)
        /\ Settled(s) /\ scratch = {}

\* The download of the session failed: fetcher.get(...).done rejected.
FetchFailed(s) == \E e \in Events(s) : e.op = "fetch" /\ e.threw

\* C21: when the download fails the install attempt is aborted: the session ends Failed
\* (installCli rejects, the telemetry record says Failed) and no platform-installer
\* step (child process, extraction, copy) and no probe has run or is running.
FailedDownloadAborts ==
    \A s \in Sessions :
        FetchFailed(s) =>
            /\ EndedFailed(s)
            /\ outcome[s].error = HostError("fetch")
            /\ telemetry[s] = <<FailedRecord(s)>>
            /\ ~Did(s, PlatformInstallerSteps \cup {"probe"})
            /\ OwnSteps(s)[Len(OwnSteps(s))].op = "fetch"

\* A session whose download failed, after its scratch directory was created.
FailedDownloadWitness ==
    \E s \in Sessions :
        /\ FetchFailed(s) /\ ScratchCreated(s)
        /\ result[s] = "Failed" /\ Len(cleanup[s]) = 1

\* The positions of the session's log at which a link was opened in the browser.
LinksOpened(s) == {i \in DOMAIN log[s] : log[s][i].op = "openExternal"}

\* The session got as far as asking for its scratch directory.
ScratchRequested(s) ==
    pc[s] = "makeTemporaryToolkitFolder" \/ Did(s, {"makeTemporaryToolkitFolder"})

\* C22: a session whose prompt was answered 'Install manually...' has opened one link,
\* the manual-install link of its tool, and ended Cancelled; a session whose prompt was
\* dismissed has ended Cancelled and opened no link; and only a session whose prompt
\* was answered 'Install' asks for a scratch directory.
PromptAnswers ==
    \A s \in Sessions :
        /\ Selected(s, manualInstall) =>
               /\ Settled(s) /\ result[s] = "Cancelled"
               /\ Cardinality(LinksOpened(s)) = 1
               /\ \A i \in LinksOpened(s) :
                      log[s][i].arg = <<AWS_CLIS[cli[s]].manualInstallLink>>
        /\ Selected(s, dismissed) =>
               /\ Settled(s) /\ result[s] = "Cancelled"
               /\ LinksOpened(s) = {}
        /\ ScratchRequested(s) => Selected(s, install)

\* One session ended by 'Install manually...' with the link of the session-manager
\* plugin opened, another ended by dismissing the prompt.
PromptAnswersWitness ==
    \E s, t \in Sessions :
        /\ cli[s] = "ssm" /\ Selected(s, manualInstall) /\ LinksOpened(s) # {}
        /\ Selected(t, dismissed) /\ Settled(t)

\* C23: every session terminates: once the host primitive a session awaits has returned
\* or thrown, the session goes on to await another primitive or installCli's promise
\* settles; no session is left awaiting a promise that nothing will resolve or reject.
EverySessionCanSettle ==
    \A s \in Sessions : pc[s] # "never"

\* installCli returned a path in the session.
ReturnedPath(s) ==
    Settled(s) /\ outcome[s].kind = "return" /\ outcome[s].value # Undefined

\* A step that did not complete without error: it threw, or it is a child process that
\* closed with a non-zero exit code.
EndedInError(e) == e.threw \/ e.exitCode # 0

\* C24: installCli returns a path only if, in that session, the prompt was answered
\* 'Install', the download and every platform-installer step completed without error
\* (none threw, no child process closed with a non-zero exit code), and the local probe
\* then closed with exit code 0 as the last step.
ReturnsPathOnlyAfterCleanInstall ==
    \A s \in Sessions :
        ReturnedPath(s) =>
            /\ Selected(s, install)
            /\ \E e \in Events(s) : e.op = "fetch" /\ ~e.threw
            /\ Did(s, PlatformInstallerSteps)
            /\ \A e \in Events(s) : e.op \in InstallSteps => ~EndedInError(e)
            /\ LocalProbeSucceeded(s)
            /\ log[s][Len(log[s])].op = "probe"

\* The subtree of the managed install directory a tool lives in: the directory under
\* the local CLI path that its command is found in.
ToolSubtree(c) == join(getToolkitLocalCliPath, <<AWS_CLIS[c].command.unix[1]>>)

\* The paths under the managed root that the session's installer steps installed into.
WrittenBy(s) ==
    {p \in {WrittenAt(e) : e \in {x \in Events(s) : x.op \in PlatformInstallerSteps}} :
        IsUnder(p, getToolkitCliDir)}

\* C25: both tools are installed under the one managed root, in subtrees that are
\* apart; what a session installs under the managed root lies inside the subtree of
\* its own tool and not inside the subtree of the other tool, and the managed install
\* directory holds nothing but what the sessions installed.
WritesOwnSubtreeOnly ==
    /\ \A c, d \in AwsClis :
           c # d => ~IsUnder(ToolSubtree(c), ToolSubtree(d))
    /\ \A c \in AwsClis : IsUnder(ToolSubtree(c), getToolkitCliDir)
    /\ \A s \in Sessions :
           \A p \in WrittenBy(s) :
               /\ IsUnder(p, ToolSubtree(cli[s]))
               /\ \A c \in AwsClis \ {cli[s]} : ~IsUnder(p, ToolSubtree(c))
    /\ \A p \in managed : \E s \in Sessions : p \in WrittenBy(s)

\* Both tools were installed on Windows, each by a session of its own: the AWS CLI by
\* the MSI handed the managed root, the plugin by extraction, and the managed install
\* directory holds what both installed.
BothToolsWitness ==
    \E s, t \in Sessions :
        /\ platform = "win32"
        /\ cli[s] = "aws" /\ cli[t] = "ssm"
        /\ result[s] = "Succeeded" /\ Settled(s)
        /\ result[t] = "Succeeded" /\ Settled(t)
        /\ WrittenBy(s) # {} /\ WrittenBy(t) # {}
        /\ managed = WrittenBy(s) \cup WrittenBy(t)

----------------------------------------------------------------------------
(* aws.amazonq.security.scan: properties *)

\* The positions of scanLog that record `op`.
ScanLogged(op) == {k \in DOMAIN scanLog : scanLog[k].op = op}

Launches == ScanLogged("startSecurityScanWithProgress")

\* C26: a scan is launched only by an invocation that found the state NotStarted, and
\* the state is not NotStarted once it is launched: between any two launches the state
\* went back to NotStarted, and while the latest scan has not ended the state is Running
\* or Cancelling.  An invocation that found the state Running asked to confirm the stop
\* and launched nothing.
OneScanAtATime ==
    /\ \A k \in Launches : scanLog[k].found = "NotStarted"
    /\ \A a, b \in Launches :
           a < b => \E k \in ScanLogged("setToNotStarted") : a < k /\ k < b
    /\ \A a \in Launches :
           (\A k \in ScanLogged("setToNotStarted") : k < a) => scanState # "NotStarted"
    /\ \A k \in ScanLogged("confirmStopSecurityScan") :
           /\ scanLog[k].found = "Running"
           /\ \A a \in Launches : scanLog[a].by # scanLog[k].by

\* One invocation launched a scan, and another one, run while that scan was in progress,
\* asked to confirm the stop.
OneScanAtATimeWitness ==
    \E a \in Launches, k \in ScanLogged("confirmStopSecurityScan") :
        /\ a < k
        /\ scanLog[a].by # scanLog[k].by
        /\ \A e \in ScanLogged("setToNotStarted") : e < a \/ k < e

----------------------------------------------------------------------------
(* aws.amazonq.applySecurityFix: properties *)

\* The invocation has a suggested fix and a file path.
HasFixAndPath(i) == fixArgs[i].suggestedFix # Undefined /\ Truthy(fixArgs[i].filePath)

\* The steps of invocation i.
FixSteps(i) == {fixLog[i][k] : k \in DOMAIN fixLog[i]}

\* Opening the document, applying the patch or applying the workspace edit failed.
EditFailed(i) ==
    \E e \in FixSteps(i) : e.op \in {"openTextDocument", "applyPatch", "applyEdit"} /\ ~e.ok

\* The issue's diagnostics were removed, or closing the issue webview was called.
IssueDismissed(i) ==
    \E e \in FixSteps(i) : e.op \in {"removeDiagnostic", "closeSecurityIssueWebview"}

\* C27: an invocation with a suggested fix and a file path never rejects, has emitted at
\* most one apply-fix event, and exactly one once it has returned; the event's result is
\* Failed exactly when opening the document, applying the patch or applying the
\* workspace edit failed, and then the diagnostics were not removed and closing the
\* webview was not called.
FixFailsOnlyWithEdit ==
    \A i \in FixInvocations :
        HasFixAndPath(i) =>
            /\ fixPc[i] # "rejected"
            /\ Len(fixTelemetry[i]) = (IF fixPc[i] = "resolved" THEN 1 ELSE 0)
            /\ fixTelemetry[i] # <<>> =>
                   /\ fixTelemetry[i][1] = "Failed" <=> EditFailed(i)
                   /\ fixTelemetry[i][1] = "Failed" => ~IssueDismissed(i)

----------------------------------------------------------------------------
(* aws.amazonq.refreshConnectionCallback: properties *)

\* One listener on each of the two events of Auth.
OneListenerEach == [onDidChangeConnectionState |-> 1, onDidDeleteConnection |-> 1]

\* The listeners registered before execution k.
ListenersBefore(k) == IF k = 1 THEN NoListeners ELSE apiExecutions[k - 1].listeners

\* C28: over any sequence of executions each event of Auth has at most one listener;
\* the execution that registers the listeners is one that leaves a toolkit API stored;
\* an execution after that one adds no listener, and stores the API it obtained.
ListenersRegisteredOnce ==
    /\ authListeners \in {NoListeners, OneListenerEach}
    /\ authListeners = ListenersBefore(Len(apiExecutions) + 1)
    /\ \A k \in DOMAIN apiExecutions :
           LET e == apiExecutions[k]
           IN  /\ e.listeners # ListenersBefore(k) =>
                      /\ ListenersBefore(k) = NoListeners
                      /\ e.listeners = OneListenerEach
                      /\ e.stored # Undefined
               /\ ListenersBefore(k) # NoListeners =>
                      /\ e.listeners = ListenersBefore(k)
                      /\ e.assigned => e.stored = e.obtained
    /\ toolkitApi = (IF apiExecutions = <<>> THEN Undefined
                     ELSE apiExecutions[Len(apiExecutions)].stored)

\* The first execution registered the listeners, a later one stored another API, and
\* the listeners are the same two.
ListenersRegisteredOnceWitness ==
    /\ Len(apiExecutions) >= 2
    /\ apiExecutions[1].listeners = OneListenerEach
    /\ apiExecutions[1].stored # Undefined
    /\ toolkitApi # Undefined /\ TheValue(toolkitApi).id = Len(apiExecutions)
    /\ authListeners = OneListenerEach
    /\ \E c \in {apiCalls[k] : k \in DOMAIN apiCalls} :
           c.by = "listener" /\ c.api = toolkitApi

====
